---- MODULE Spec2Model ----
\* Verification model of the finance dashboard (quocviethere/finance):
\*   - FinanceTrackerApp (src/src/components/TransactionsList.jsx, second half):
\*     the filter pipeline, the type totals and the 30-day rolling series;
\*   - the legacy TransactionsList component (same file, first half): totals and
\*     the zero-filled daily series of the current month;
\*   - useFinanceSettings: optimistic settings update with rollback.
\* Strings that the code compares or searches (ISO dates, notes, search text)
\* are sequences of UTF-16 code units; a JS Date is the number of the local
\* calendar day since 1970-01-01.
EXTENDS Integers, Sequences, FiniteSets, TLC

VARIABLES
    transactions,    \* useTransactions: React state `transactions`
    typeFilter,      \* FinanceTrackerApp state
    categoryFilter,
    queryText,
    startDate,
    endDate,
    clock,           \* the local calendar day the wall clock shows
    chartDaily,      \* the memoised 30-day series of the last render
    legacyTx,        \* TransactionsList (legacy component): state `transactions`
    legacyNow,       \* TransactionsList: `now` of the last render
    settings,        \* useFinanceSettings: React state `settings`
    localSettings,   \* useFinanceSettings: useLocalStorage copy ('vnd-settings')
    settingsDoc,     \* the authoritative document settings/global
    calls,           \* in-flight updateSettings calls, one slot per edit modal
    modalOpen,       \* editBudgetOpen / editSavingsOpen
    initWrites,      \* pending default-initialisation writes
    snapDue,         \* the settings listener has a snapshot to deliver
    lastOutcome,     \* how the last settled onSave call ended
    timezone,        \* hours the local time zone is ahead of UTC
    statsTx,         \* StatsView: state `transactions`
    source,          \* useTransactions: 'firestore' or 'local' (db missing)
    txDocs,          \* the documents of the collection 'transactions'
    transactionsLS,  \* useTransactions: useLocalStorage copy ('vnd-finance-tracker')
    editingId,       \* TransactionTable: state `editingId`
    idsUsed,         \* how many document ids have been handed out
    txSnapDue,       \* the transactions listener has a snapshot to deliver
    lastOp,          \* the store operation of the last step (history)
    wishDocs,        \* the documents of the collection 'wishlist'
    wishUsed,        \* the wishlist ids handed out so far
    sidebarItems,    \* Sidebar: state `items`
    editingIdx,      \* Sidebar: state `editingIdx`
    editingText,     \* Sidebar: state `editingText`
    editedItem,      \* the id of the item handleEdit was called on (history)
    lastWish,        \* the wishlist write of the last handler (history)
    wishSnapDue      \* the wishlist listener has a snapshot to deliver

viewVars == <<transactions, typeFilter, categoryFilter, queryText, startDate,
              endDate, clock, chartDaily>>
legacyVars == <<legacyTx, legacyNow>>
settingsVars == <<settings, localSettings, settingsDoc, calls, modalOpen,
                  initWrites, snapDue, lastOutcome>>
envVars == <<timezone>>
statsVars == <<statsTx>>
storeVars == <<source, txDocs, transactionsLS, editingId, idsUsed, txSnapDue, lastOp>>
sidebarVars == <<wishDocs, wishUsed, sidebarItems, editingIdx, editingText, editedItem,
                 lastWish, wishSnapDue>>
vars == <<viewVars, legacyVars, settingsVars, envVars, statsVars, storeVars, sidebarVars>>

-----------------------------------------------------------------------------
\* Bounds of the model.

MaxTx == 2          \* longest transaction list
MaxTicks == 1       \* midnights the clock passes
MaxStraddle == 1    \* latest loop iteration at which midnight may fall
MaxLegacyTx == 2    \* longest list of the legacy component
MaxSetting == 1     \* largest amount entered in a settings modal
MaxStatsTx == 3     \* longest list of StatsView

\* The day the model starts on: 2024-03-01 (1 January 2024 is day 19723), so
\* that the 30-day window spans 29 February of a leap year and two month ends.
Today0 == 19723 + 31 + 29

-----------------------------------------------------------------------------
\* JavaScript values.

Has(t, f) == f \in DOMAIN t

\* A JavaScript number is an integer or NaN.  NaN is absorbing under + and -.
NaN == -999999999
Add(a, b) == IF a = NaN \/ b = NaN THEN NaN ELSE a + b
Sub(a, b) == IF a = NaN \/ b = NaN THEN NaN ELSE a - b

\* t.amount as an operand of +: undefined becomes NaN.
amountOf(t) == IF Has(t, "amount") THEN t.amount ELSE NaN

\* x || 0 for a number or undefined: NaN and 0 are falsy.
orZero(x) == IF x = NaN THEN 0 ELSE x

\* ECMAScript Date, local time, day granularity.  A Date is a day number;
\* the getters convert it to a civil date, the constructor and setDate convert
\* back, normalising month and day overflow (MakeDay).
CivilFromDays(z0) ==
    LET z == z0 + 719468
        era == z \div 146097
        doe == z - era * 146097
        yoe == (doe - doe \div 1460 + doe \div 36524 - doe \div 146096) \div 365
        doy == doe - (365 * yoe + yoe \div 4 - yoe \div 100)
        mp == (5 * doy + 2) \div 153
        d == doy - (153 * mp + 2) \div 5 + 1
        m == IF mp < 10 THEN mp + 3 ELSE mp - 9
        y == yoe + era * 400 + (IF m <= 2 THEN 1 ELSE 0)
    IN  [year |-> y, month |-> m, day |-> d]

DaysFromCivil(y0, m, d) ==
    LET y == IF m <= 2 THEN y0 - 1 ELSE y0
        era == y \div 400
        yoe == y - era * 400
        mp == IF m > 2 THEN m - 3 ELSE m + 9
        doy == (153 * mp + 2) \div 5 + d - 1
        doe == yoe * 365 + yoe \div 4 - yoe \div 100 + doy
    IN  era * 146097 + doe - 719468

getFullYear(d) == CivilFromDays(d).year
getMonth(d) == CivilFromDays(d).month - 1
getDate(d) == CivilFromDays(d).day

\* new Date(year, monthIndex, day): monthIndex and day may overflow.
NewDate(year, monthIndex, day) ==
    DaysFromCivil(year + (monthIndex \div 12), (monthIndex % 12) + 1, 1) + day - 1

\* d.setDate(n)
setDate(d, n) == NewDate(getFullYear(d), getMonth(d), n)

\* String(n) for a natural number, as code units.
RECURSIVE DecStr(_)
DecStr(n) == IF n < 10 THEN <<48 + n>> ELSE DecStr(n \div 10) \o <<48 + (n % 10)>>

\* String(n).padStart(2, '0')
pad(n) == LET s == DecStr(n) IN IF Len(s) < 2 THEN <<48>> \o s ELSE s

toISO(d) == DecStr(getFullYear(d)) \o <<45>> \o pad(getMonth(d) + 1) \o <<45>> \o pad(getDate(d))

\* daysAgo(n), with the reading `now` of the clock that its `new Date()` takes.
daysAgo(n, now) == toISO(setDate(now, getDate(now) - n))

\* a < b on JS strings: lexicographic on code units.
RECURSIVE StrLT(_, _)
StrLT(a, b) ==
    IF b = <<>> THEN FALSE
    ELSE IF a = <<>> THEN TRUE
    ELSE IF Head(a) # Head(b) THEN Head(a) < Head(b)
    ELSE StrLT(Tail(a), Tail(b))

StrLE(a, b) == a = b \/ StrLT(a, b)

\* String.prototype.toLowerCase on the ASCII range.
toLowerCase(s) == [i \in 1..Len(s) |-> IF s[i] >= 65 /\ s[i] <= 90 THEN s[i] + 32 ELSE s[i]]

\* String.prototype.includes
includes(s, q) ==
    \E k \in 0..(Len(s) - Len(q)) : \A i \in 1..Len(q) : s[k + i] = q[i]

-----------------------------------------------------------------------------
\* Inputs of the view: transaction documents as a snapshot delivers them.
\* `type` and `note` are optional fields; dates are the strings a date input
\* yields; createdAt is the day of the server timestamp.

\* "YYYY-MM-DD" written out digit by digit.
Iso(y, m, d) ==
    <<48 + (y \div 1000), 48 + ((y \div 100) % 10), 48 + ((y \div 10) % 10), 48 + (y % 10), 45,
      48 + (m \div 10), 48 + (m % 10), 45, 48 + (d \div 10), 48 + (d % 10)>>

NoteXaB == <<120, 97, 66>>     \* "xaB"
NoteB == <<98>>                \* "b"
QueryAb == <<65, 98>>          \* "Ab"

Categories == {"Food & Dining", "Salary"}

TxInputs ==
    { [type |-> "income", amount |-> 1000, category |-> "Salary", note |-> NoteXaB, date |-> Iso(2024, 3, 1), createdAt |-> 19700],
      [type |-> "expense", amount |-> 300, category |-> "Food & Dining", note |-> NoteXaB, date |-> Iso(2024, 3, 1), createdAt |-> 19790],
      [amount |-> 200, category |-> "Food & Dining", date |-> Iso(2024, 3, 1), createdAt |-> 19783],
      [type |-> "expense", amount |-> 40, category |-> "Food & Dining", note |-> NoteB, date |-> Iso(2024, 1, 31), createdAt |-> 19783],
      [type |-> "expense", amount |-> 50, category |-> "Salary", note |-> <<>>, date |-> Iso(2024, 1, 30), createdAt |-> 19783],
      [type |-> "income", amount |-> 6, category |-> "Food & Dining", note |-> NoteXaB, date |-> Iso(2024, 3, 2), createdAt |-> 19783],
      [type |-> "expense", amount |-> 7, category |-> "Food & Dining", note |-> NoteXaB, date |-> Iso(2024, 2, 29), createdAt |-> 19783] }

TypeFilters == {"all", "income", "expense"}
CategoryFilters == {"all"} \cup Categories
Queries == {<<>>, QueryAb}
StartDates == {<<>>, Iso(2024, 1, 31), Iso(2024, 3, 1)}
EndDates == {<<>>, Iso(2024, 3, 1)}

-----------------------------------------------------------------------------
\* FinanceTrackerApp: derived values.

\* t.note || ''
noteOf(t) == IF Has(t, "note") THEN t.note ELSE <<>>

\* The four predicates of `filtered`.  A comparison with an absent field
\* (undefined) is false.
inType(t, tf) == tf = "all" \/ (Has(t, "type") /\ t.type = tf)
inCategory(t, cf) == cf = "all" \/ (Has(t, "category") /\ t.category = cf)
\* Variant: the note is searched without lowering its case.
inText_caseSensitive(t, q) == q = <<>> \/ includes(noteOf(t), toLowerCase(q))

inText(t, q) == q = <<>> \/ includes(toLowerCase(noteOf(t)), toLowerCase(q))
\* Variant: the end bound is exclusive.
inDate_exclusiveEnd(t, s, e) ==
    /\ (s = <<>> \/ (Has(t, "date") /\ StrLE(s, t.date)))
    /\ (e = <<>> \/ (Has(t, "date") /\ StrLT(t.date, e)))

inDate(t, s, e) ==
    /\ (s = <<>> \/ (Has(t, "date") /\ StrLE(s, t.date)))
    /\ (e = <<>> \/ (Has(t, "date") /\ StrLE(t.date, e)))

\* Variant: the text and date predicates are joined by || instead of &&.
keeps_or(t, tf, cf, q, s, e) ==
    inType(t, tf) /\ inCategory(t, cf) /\ (inText(t, q) \/ inDate(t, s, e))

keeps(t, tf, cf, q, s, e) ==
    inType(t, tf) /\ inCategory(t, cf) /\ inText(t, q) /\ inDate(t, s, e)

\* transactions.filter(...)
applyFilters(txs, tf, cf, q, s, e) ==
    SelectSeq(txs, LAMBDA t : keeps(t, tf, cf, q, s, e))

filtered == applyFilters(transactions, typeFilter, categoryFilter, queryText, startDate, endDate)

\* Variant: only an explicit 'expense' type is added to expense.
RECURSIVE sumsLoop_strictExpense(_, _, _, _)
sumsLoop_strictExpense(f, i, income, expense) ==
    IF i > Len(f) THEN [income |-> income, expense |-> expense, balance |-> income - expense]
    ELSE IF Has(f[i], "type") /\ f[i].type = "income"
         THEN sumsLoop_strictExpense(f, i + 1, income + f[i].amount, expense)
         ELSE IF Has(f[i], "type") /\ f[i].type = "expense"
              THEN sumsLoop_strictExpense(f, i + 1, income, expense + f[i].amount)
              ELSE sumsLoop_strictExpense(f, i + 1, income, expense)

\* The loop of `sums`.
RECURSIVE sumsLoop(_, _, _, _)
sumsLoop(f, i, income, expense) ==
    IF i > Len(f) THEN [income |-> income, expense |-> expense, balance |-> Sub(income, expense)]
    ELSE IF Has(f[i], "type") /\ f[i].type = "income"
         THEN sumsLoop(f, i + 1, Add(income, amountOf(f[i])), expense)
         ELSE sumsLoop(f, i + 1, income, Add(expense, amountOf(f[i])))

totalsByType(f) == sumsLoop(f, 1, 0, 0)

sums == totalsByType(filtered)

WindowDays == 30

\* Variant: net is recomputed in the income branch only.
RECURSIVE bucketLoop_staleNet(_, _, _)
bucketLoop_staleNet(f, i, slot) ==
    IF i > Len(f) THEN slot
    ELSE IF Has(f[i], "date") /\ f[i].date = slot.date
         THEN IF Has(f[i], "type") /\ f[i].type = "income"
              THEN bucketLoop_staleNet(f, i + 1,
                       [date |-> slot.date, income |-> slot.income + f[i].amount, expense |-> slot.expense,
                        net |-> slot.income + f[i].amount - slot.expense])
              ELSE bucketLoop_staleNet(f, i + 1,
                       [date |-> slot.date, income |-> slot.income, expense |-> slot.expense + f[i].amount,
                        net |-> slot.net])
         ELSE bucketLoop_staleNet(f, i + 1, slot)

\* The second loop of chartDaily, for the bucket of one date.
RECURSIVE bucketLoop(_, _, _)
bucketLoop(f, i, slot) ==
    IF i > Len(f) THEN slot
    ELSE IF Has(f[i], "date") /\ f[i].date = slot.date
         THEN LET inc == IF Has(f[i], "type") /\ f[i].type = "income"
                         THEN Add(slot.income, amountOf(f[i])) ELSE slot.income
                  exp == IF Has(f[i], "type") /\ f[i].type = "income"
                         THEN slot.expense ELSE Add(slot.expense, amountOf(f[i]))
              IN  bucketLoop(f, i + 1, [date |-> slot.date, income |-> inc, expense |-> exp, net |-> Sub(inc, exp)])
         ELSE bucketLoop(f, i + 1, slot)

\* daysAgo tabulated over the days the clock can show (evaluated once).
ClockDays == Today0..(Today0 + MaxTicks)
daysAgoMemo == [now \in ClockDays |-> [n \in 0..WindowDays |-> daysAgo(n, now)]]

\* chartDaily: `reads[j]` is what the clock shows when the j-th iteration of the
\* first loop (i = 30 - j) calls daysAgo.  A date pushed twice shares one slot.
rollingWindowSeries(f, reads) ==
    [j \in 1..WindowDays |->
        bucketLoop(f, 1, [date |-> daysAgoMemo[reads[j]][WindowDays - j], income |-> 0, expense |-> 0, net |-> 0])]

\* The clock readings of one run of the loop: midnight passes after the first
\* k readings (k = 0: it does not pass during the loop).
Reads(now, k) == [j \in 1..WindowDays |-> IF k = 0 \/ j <= k THEN now ELSE now + 1]

-----------------------------------------------------------------------------
\* FinanceTrackerApp: state and handlers.  Every state change re-renders, and
\* the render recomputes `filtered` and with it the memoised chartDaily.

InitView ==
    /\ transactions = <<>>
    /\ typeFilter = "all"
    /\ categoryFilter = "all"
    /\ queryText = <<>>
    /\ clock = Today0
    /\ startDate = daysAgo(30, Today0)
    /\ endDate = toISO(Today0)
    /\ chartDaily = rollingWindowSeries(<<>>, Reads(Today0, 0))

\* Variant: the chart is bucketed from the unfiltered list.
Render_unfiltered(txs, tf, cf, q, s, e, k) ==
    /\ k > 0 => clock < Today0 + MaxTicks
    /\ chartDaily' = rollingWindowSeries(txs, Reads(clock, k))
    /\ clock' = IF k > 0 THEN clock + 1 ELSE clock

\* The render that follows a state change: k is where midnight falls.
Render(txs, tf, cf, q, s, e, k) ==
    /\ k > 0 => clock < Today0 + MaxTicks
    /\ chartDaily' = rollingWindowSeries(applyFilters(txs, tf, cf, q, s, e), Reads(clock, k))
    /\ clock' = IF k > 0 THEN clock + 1 ELSE clock

\* The lists one change of the collection away from the current one, newest
\* document first.
NextSnapshots(cur) ==
    {<<t>> \o cur : t \in IF Len(cur) < MaxTx THEN TxInputs ELSE {}}
        \cup {SubSeq(cur, 1, i - 1) \o SubSeq(cur, i + 1, Len(cur)) : i \in 1..Len(cur)}

\* useTransactions: the onSnapshot callback.
OnSnapshot(items, k) ==
    /\ transactions' = items
    /\ Render(items, typeFilter, categoryFilter, queryText, startDate, endDate, k)
    /\ UNCHANGED <<typeFilter, categoryFilter, queryText, startDate, endDate>>

SetTypeFilter(v, k) ==
    /\ v # typeFilter
    /\ typeFilter' = v
    /\ Render(transactions, v, categoryFilter, queryText, startDate, endDate, k)
    /\ UNCHANGED <<transactions, categoryFilter, queryText, startDate, endDate>>

SetCategoryFilter(v, k) ==
    /\ v # categoryFilter
    /\ categoryFilter' = v
    /\ Render(transactions, typeFilter, v, queryText, startDate, endDate, k)
    /\ UNCHANGED <<transactions, typeFilter, queryText, startDate, endDate>>

SetQueryText(v, k) ==
    /\ v # queryText
    /\ queryText' = v
    /\ Render(transactions, typeFilter, categoryFilter, v, startDate, endDate, k)
    /\ UNCHANGED <<transactions, typeFilter, categoryFilter, startDate, endDate>>

SetStartDate(v, k) ==
    /\ v # startDate
    /\ startDate' = v
    /\ Render(transactions, typeFilter, categoryFilter, queryText, v, endDate, k)
    /\ UNCHANGED <<transactions, typeFilter, categoryFilter, queryText, endDate>>

SetEndDate(v, k) ==
    /\ v # endDate
    /\ endDate' = v
    /\ Render(transactions, typeFilter, categoryFilter, queryText, startDate, v, k)
    /\ UNCHANGED <<transactions, typeFilter, categoryFilter, queryText, startDate>>

\* Midnight passes while the page is idle: nothing re-renders.
Tick ==
    /\ clock < Today0 + MaxTicks
    /\ clock' = clock + 1
    /\ UNCHANGED <<transactions, typeFilter, categoryFilter, queryText, startDate, endDate, chartDaily>>

LegacyIdle == legacyTx = <<>> /\ legacyNow = Today0

\* The browser's time zone (Asia/Ho_Chi_Minh unless a specification draws it).
EnvIdle == timezone = 7

\* StatsView is not mounted.
StatsIdle == statsTx = <<>>

\* No edit modal of the transaction table is open (null).
NoId == 0

\* The collection is empty and nothing has been written to it.
StoreIdle ==
    /\ source = "firestore" /\ txDocs = {} /\ transactionsLS = <<>>
    /\ editingId = NoId /\ idsUsed = 0 /\ txSnapDue = FALSE
    /\ lastOp = [op |-> "none"]

\* The Sidebar is not mounted.
SidebarIdle ==
    /\ wishDocs = {} /\ wishUsed = {} /\ sidebarItems = <<>>
    /\ editingIdx = 0 /\ editingText = "" /\ editedItem = NoId
    /\ lastWish = [op |-> "none"] /\ wishSnapDue = FALSE

\* useFinanceSettings: values.  null is NULL; amounts are what the modals
\* accept (digits only, so finite and non-negative).
NULL == -1
SettingValues == {NULL} \cup (0..MaxSetting)
AllSettings == [savingAmount : SettingValues, monthlyBudget : SettingValues]
DEFAULT_SETTINGS == [savingAmount |-> NULL, monthlyBudget |-> NULL]
Modals == {"budget", "saving"}

\* The settings document: absent, or its two fields (a field it lacks reads
\* as null: data?.x ?? null).
MissingDoc == [exists |-> FALSE, savingAmount |-> NULL, monthlyBudget |-> NULL]
DocOf(st) == [exists |-> TRUE, savingAmount |-> st.savingAmount, monthlyBudget |-> st.monthlyBudget]

IdleCall == [pc |-> "idle", value |-> NULL, previousSettings |-> DEFAULT_SETTINGS,
             localBefore |-> DEFAULT_SETTINGS, interleaved |-> FALSE]

SettingsIdle ==
    /\ settings = DEFAULT_SETTINGS /\ localSettings = DEFAULT_SETTINGS /\ settingsDoc = MissingDoc
    /\ calls = [m \in Modals |-> IdleCall] /\ modalOpen = [m \in Modals |-> FALSE]
    /\ initWrites = 0 /\ snapDue = FALSE /\ lastOutcome = "none"

Init == InitView /\ LegacyIdle /\ SettingsIdle /\ EnvIdle /\ StatsIdle /\ StoreIdle /\ SidebarIdle

Next ==
    \/ \E items \in NextSnapshots(transactions), k \in 0..MaxStraddle :
          OnSnapshot(items, k) /\ UNCHANGED <<legacyVars, settingsVars, envVars, statsVars, storeVars, sidebarVars>>
    \/ \E v \in TypeFilters, k \in 0..MaxStraddle :
          SetTypeFilter(v, k) /\ UNCHANGED <<legacyVars, settingsVars, envVars, statsVars, storeVars, sidebarVars>>
    \/ \E v \in CategoryFilters, k \in 0..MaxStraddle :
          SetCategoryFilter(v, k) /\ UNCHANGED <<legacyVars, settingsVars, envVars, statsVars, storeVars, sidebarVars>>
    \/ \E v \in Queries, k \in 0..MaxStraddle :
          SetQueryText(v, k) /\ UNCHANGED <<legacyVars, settingsVars, envVars, statsVars, storeVars, sidebarVars>>
    \/ \E v \in StartDates, k \in 0..MaxStraddle :
          SetStartDate(v, k) /\ UNCHANGED <<legacyVars, settingsVars, envVars, statsVars, storeVars, sidebarVars>>
    \/ \E v \in EndDates, k \in 0..MaxStraddle :
          SetEndDate(v, k) /\ UNCHANGED <<legacyVars, settingsVars, envVars, statsVars, storeVars, sidebarVars>>
    \/ Tick /\ UNCHANGED <<legacyVars, settingsVars, envVars, statsVars, storeVars, sidebarVars>>

Spec == Init /\ [][Next]_vars

-----------------------------------------------------------------------------
\* The legacy TransactionsList component.  Its documents carry `date` as a
\* Firestore Timestamp; date.toDate() is the day number of that instant.

LegacyTxInputs ==
    { [type |-> "expense", amount |-> 300, category |-> "Food & Drink", date |-> 19782],   \* 2024-02-29
      [amount |-> 200, category |-> "Other", date |-> 19782],                              \* 2024-02-29
      [type |-> "income", amount |-> 1000, category |-> "Salary", date |-> 19782],         \* 2024-02-29
      [type |-> "expense", amount |-> 40, category |-> "Housing", date |-> 19754],         \* 2024-02-01
      [type |-> "expense", amount |-> 50, category |-> "Housing", date |-> 19416],         \* 2023-02-28
      [type |-> "expense", amount |-> 7, category |-> "Shopping", date |-> 19783] }        \* 2024-03-01

\* Days on which the component is mounted: 2000-02-28, 2023-02-28, 2023-12-31,
\* 2024-02-28, 2024-04-30, 2100-02-28.
LegacyNows == {11015, 19416, 19722, 19781, 19843, 47540}
LegacyDays == UNION {n..(n + MaxTicks) : n \in LegacyNows}

\* date-fns addLeadingZeros
RECURSIVE addLeadingZeros(_, _)
addLeadingZeros(s, len) == IF Len(s) < len THEN addLeadingZeros(<<48>> \o s, len) ELSE s

\* date-fns format(d, 'yyyy-MM-dd')
format(d) ==
    addLeadingZeros(DecStr(getFullYear(d)), 4) \o <<45>> \o addLeadingZeros(DecStr(getMonth(d) + 1), 2)
        \o <<45>> \o addLeadingZeros(DecStr(getDate(d)), 2)

\* xs.reduce((a, t) => a + t.amount, 0)
RECURSIVE reduceAmount(_, _, _)
reduceAmount(xs, i, a) == IF i > Len(xs) THEN a ELSE reduceAmount(xs, i + 1, a + xs[i].amount)

\* t.type || 'expense'
typeOrExpense(t) == IF Has(t, "type") THEN t.type ELSE "expense"

totalIncome(txs) == reduceAmount(SelectSeq(txs, LAMBDA t : Has(t, "type") /\ t.type = "income"), 1, 0)
totalExpense(txs) == reduceAmount(SelectSeq(txs, LAMBDA t : typeOrExpense(t) = "expense"), 1, 0)
totalBalance(txs) == totalIncome(txs) - totalExpense(txs)

expenseTx(txs) == SelectSeq(txs, LAMBDA t : typeOrExpense(t) = "expense")

monthExpenseTx(txs, now) ==
    SelectSeq(expenseTx(txs),
              LAMBDA t : getMonth(t.date) = getMonth(now) /\ getFullYear(t.date) = getFullYear(now))

\* byDate[key] || 0
byDate(txs, now, key) ==
    reduceAmount(SelectSeq(monthExpenseTx(txs, now), LAMBDA t : format(t.date) = key), 1, 0)

\* Variant: day 0 of the current month instead of the next one.
daysInMonth_previousMonth(year, month) == getDate(NewDate(year, month, 0))

\* new Date(currentYear, currentMonth + 1, 0).getDate()
daysInMonth(year, month) == getDate(NewDate(year, month + 1, 0))

dateLabels(now) ==
    [i \in 1..daysInMonth(getFullYear(now), getMonth(now)) |-> format(NewDate(getFullYear(now), getMonth(now), i))]

\* lineData: the labels and the data of the 'Expense' dataset.
lineData(txs, now) ==
    LET labels == dateLabels(now)
    IN  [labels |-> labels, data |-> [i \in 1..Len(labels) |-> byDate(txs, now, labels[i])]]

InitLegacy == legacyTx = <<>> /\ legacyNow \in LegacyNows

LegacyNextSnapshots(cur) ==
    {<<t>> \o cur : t \in IF Len(cur) < MaxLegacyTx THEN LegacyTxInputs ELSE {}}
        \cup {SubSeq(cur, 1, i - 1) \o SubSeq(cur, i + 1, Len(cur)) : i \in 1..Len(cur)}

\* The onSnapshot callback and the render it causes; the render takes `now`
\* from the clock, which may have passed midnight since the last one.
LegacyOnSnapshot(data, tick) ==
    /\ legacyNow + tick \in LegacyDays
    /\ legacyTx' = data
    /\ legacyNow' = legacyNow + tick

NextLegacy ==
    \E data \in LegacyNextSnapshots(legacyTx), tick \in 0..1 :
        LegacyOnSnapshot(data, tick) /\ UNCHANGED <<viewVars, settingsVars, envVars, statsVars, storeVars, sidebarVars>>

InitSpecLegacy == InitView /\ InitLegacy /\ SettingsIdle /\ EnvIdle /\ StatsIdle /\ StoreIdle /\ SidebarIdle

SpecLegacy == InitSpecLegacy /\ [][NextLegacy]_vars

-----------------------------------------------------------------------------
\* useFinanceSettings and the two edit modals.

\* The patch a modal saves: { monthlyBudget: v } or { savingAmount: v }.
FieldOf(m) == IF m = "budget" THEN "monthlyBudget" ELSE "savingAmount"

\* { ...prev, ...patch }
merge(prev, m, v) == [prev EXCEPT ![FieldOf(m)] = v]

\* Another operation ran while a call was awaiting its write (localBefore is
\* only of interest for a call nothing interleaved with).
Interleave(cs) ==
    [m \in Modals |-> IF cs[m].pc = "awaiting"
                      THEN [cs[m] EXCEPT !.interleaved = TRUE, !.localBefore = DEFAULT_SETTINGS]
                      ELSE cs[m]]

\* After mount: `settings` is what localStorage held under 'vnd-settings';
\* localSettings is the same, or the values migrated from the legacy keys.
InitSettings ==
    /\ settings \in AllSettings
    /\ localSettings \in AllSettings
    /\ settingsDoc \in {MissingDoc} \cup {DocOf(st) : st \in AllSettings}
    /\ calls = [m \in Modals |-> IdleCall]
    /\ modalOpen = [m \in Modals |-> FALSE]
    /\ initWrites = 0
    /\ snapDue = TRUE
    /\ lastOutcome = "none"

\* setEditBudgetOpen(true) / setEditSavingsOpen(true)
OpenModal(m) ==
    /\ ~modalOpen[m]
    /\ modalOpen' = [modalOpen EXCEPT ![m] = TRUE]
    /\ UNCHANGED <<settings, localSettings, settingsDoc, calls, initWrites, snapDue, lastOutcome>>

\* Modal onClose
CloseModal(m) ==
    /\ modalOpen[m]
    /\ modalOpen' = [modalOpen EXCEPT ![m] = FALSE]
    /\ UNCHANGED <<settings, localSettings, settingsDoc, calls, initWrites, snapDue, lastOutcome>>

\* updateSettings up to its await: the optimistic update of both copies.
updateSettings(m, v) ==
    /\ settings' = merge(settings, m, v)
    /\ localSettings' = merge(localSettings, m, v)
    /\ calls' = [Interleave(calls) EXCEPT ![m] =
                    [pc |-> "awaiting", value |-> v, previousSettings |-> settings,
                     localBefore |-> localSettings, interleaved |-> FALSE]]

\* handleSubmit of a modal, up to `await onSave(next)`; the buttons are
\* disabled while a call of this modal is pending.
handleSubmit(m, v) ==
    /\ modalOpen[m] /\ calls[m].pc = "idle"
    /\ v # NULL
    /\ updateSettings(m, v)
    /\ UNCHANGED <<settingsDoc, modalOpen, initWrites, snapDue, lastOutcome>>

\* handleClear / handleReset: onSave(null)
handleClear(m) ==
    /\ modalOpen[m] /\ calls[m].pc = "idle"
    /\ updateSettings(m, NULL)
    /\ UNCHANGED <<settingsDoc, modalOpen, initWrites, snapDue, lastOutcome>>

\* setDoc(ref, patch, { merge: true }) is applied: the call resolves and the
\* modal closes.
WriteConfirm(m) ==
    /\ calls[m].pc = "awaiting"
    /\ settingsDoc' = [settingsDoc EXCEPT !.exists = TRUE, ![FieldOf(m)] = calls[m].value]
    /\ snapDue' = TRUE
    /\ calls' = [Interleave(calls) EXCEPT ![m] = IdleCall]
    /\ modalOpen' = [modalOpen EXCEPT ![m] = FALSE]
    /\ lastOutcome' = "resolved"
    /\ UNCHANGED <<settings, localSettings, initWrites>>

\* setDoc is rejected: the catch block of updateSettings, then the catch block
\* of the modal (alert; the modal is left as it is).
WriteReject(m) ==
    /\ calls[m].pc = "awaiting"
    /\ settings' = calls[m].previousSettings
    /\ localSettings' = calls[m].previousSettings
    /\ calls' = [Interleave(calls) EXCEPT ![m] = IdleCall]
    /\ lastOutcome' = "rejected"
    /\ UNCHANGED <<settingsDoc, modalOpen, initWrites, snapDue>>

\* Variant: a missing document is defaulted locally and no write is issued.
OnSettingsSnapshot_noInit ==
    /\ snapDue
    /\ snapDue' = FALSE
    /\ IF settingsDoc.exists
       THEN /\ settings' = [savingAmount |-> settingsDoc.savingAmount, monthlyBudget |-> settingsDoc.monthlyBudget]
            /\ localSettings' = settings'
       ELSE /\ settings' = DEFAULT_SETTINGS
            /\ UNCHANGED localSettings
    /\ calls' = Interleave(calls)
    /\ UNCHANGED <<settingsDoc, modalOpen, lastOutcome, initWrites>>

\* The onSnapshot callback of the settings document.
OnSettingsSnapshot ==
    /\ snapDue
    /\ snapDue' = FALSE
    /\ IF settingsDoc.exists
       THEN /\ settings' = [savingAmount |-> settingsDoc.savingAmount, monthlyBudget |-> settingsDoc.monthlyBudget]
            /\ localSettings' = settings'
            /\ UNCHANGED initWrites
       ELSE /\ settings' = DEFAULT_SETTINGS
            /\ initWrites' = initWrites + 1
            /\ UNCHANGED localSettings
    /\ calls' = Interleave(calls)
    /\ UNCHANGED <<settingsDoc, modalOpen, lastOutcome>>

\* The default-initialisation write setDoc(ref, DEFAULT_SETTINGS, { merge: true })
\* is applied, or fails (logged).
InitWriteApply ==
    /\ initWrites > 0
    /\ initWrites' = initWrites - 1
    /\ settingsDoc' = DocOf(DEFAULT_SETTINGS)
    /\ snapDue' = TRUE
    /\ UNCHANGED <<settings, localSettings, calls, modalOpen, lastOutcome>>

InitWriteFail ==
    /\ initWrites > 0
    /\ initWrites' = initWrites - 1
    /\ UNCHANGED <<settings, localSettings, settingsDoc, calls, modalOpen, snapDue, lastOutcome>>

InitSpecSettings == InitView /\ LegacyIdle /\ InitSettings /\ EnvIdle /\ StatsIdle /\ StoreIdle /\ SidebarIdle

NextSettings ==
    \/ \E m \in Modals : OpenModal(m) /\ UNCHANGED <<viewVars, legacyVars, envVars, statsVars, storeVars, sidebarVars>>
    \/ \E m \in Modals : CloseModal(m) /\ UNCHANGED <<viewVars, legacyVars, envVars, statsVars, storeVars, sidebarVars>>
    \/ \E m \in Modals, v \in SettingValues : handleSubmit(m, v) /\ UNCHANGED <<viewVars, legacyVars, envVars, statsVars, storeVars, sidebarVars>>
    \/ \E m \in Modals : handleClear(m) /\ UNCHANGED <<viewVars, legacyVars, envVars, statsVars, storeVars, sidebarVars>>
    \/ \E m \in Modals : WriteConfirm(m) /\ UNCHANGED <<viewVars, legacyVars, envVars, statsVars, storeVars, sidebarVars>>
    \/ \E m \in Modals : WriteReject(m) /\ UNCHANGED <<viewVars, legacyVars, envVars, statsVars, storeVars, sidebarVars>>
    \/ OnSettingsSnapshot /\ UNCHANGED <<viewVars, legacyVars, envVars, statsVars, storeVars, sidebarVars>>
    \/ InitWriteApply /\ UNCHANGED <<viewVars, legacyVars, envVars, statsVars, storeVars, sidebarVars>>
    \/ InitWriteFail /\ UNCHANGED <<viewVars, legacyVars, envVars, statsVars, storeVars, sidebarVars>>

SpecSettings == InitSpecSettings /\ [][NextSettings]_vars

\* A second client on the same document: what its updateSettings write
\* (setDoc(ref, patch, { merge: true })) does to the document when applied.
RemoteWrite(m, v) ==
    /\ settingsDoc' = [settingsDoc EXCEPT !.exists = TRUE, ![FieldOf(m)] = v]
    /\ settingsDoc' # settingsDoc
    /\ snapDue' = TRUE
    /\ UNCHANGED <<settings, localSettings, calls, modalOpen, initWrites, lastOutcome>>

\* A first visit: nothing in local storage, no document, the listener just
\* registered.
InitSpecClients ==
    /\ InitView /\ LegacyIdle /\ EnvIdle /\ StatsIdle /\ StoreIdle /\ SidebarIdle
    /\ settings = DEFAULT_SETTINGS /\ localSettings = DEFAULT_SETTINGS /\ settingsDoc = MissingDoc
    /\ calls = [m \in Modals |-> IdleCall] /\ modalOpen = [m \in Modals |-> FALSE]
    /\ initWrites = 0 /\ snapDue = TRUE /\ lastOutcome = "none"

\* The listener and the initialisation write of this client, and the writes
\* of the other one.
NextClients ==
    \/ OnSettingsSnapshot /\ UNCHANGED <<viewVars, legacyVars, envVars, statsVars, storeVars, sidebarVars>>
    \/ InitWriteApply /\ UNCHANGED <<viewVars, legacyVars, envVars, statsVars, storeVars, sidebarVars>>
    \/ InitWriteFail /\ UNCHANGED <<viewVars, legacyVars, envVars, statsVars, storeVars, sidebarVars>>
    \/ \E m \in Modals, v \in SettingValues :
          RemoteWrite(m, v) /\ UNCHANGED <<viewVars, legacyVars, envVars, statsVars, storeVars, sidebarVars>>

SpecClients == InitSpecClients /\ [][NextClients]_vars

-----------------------------------------------------------------------------
\* FinanceTrackerApp: the summary cards (savings, monthly expenses, budget).

\* Date.parse of a string: the date-only ISO form "YYYY-MM-DD" is midnight UTC
\* of that day; anything else the model feeds is not a date (NaN).
IsDigit(c) == c >= 48 /\ c <= 57

IsDateOnlyForm(s) ==
    /\ Len(s) = 10
    /\ \A i \in {1, 2, 3, 4, 6, 7, 9, 10} : IsDigit(s[i])
    /\ s[5] = 45 /\ s[8] = 45

DateParse(s) ==
    IF ~IsDateOnlyForm(s) THEN [valid |-> FALSE]
    ELSE LET y == (s[1] - 48) * 1000 + (s[2] - 48) * 100 + (s[3] - 48) * 10 + (s[4] - 48)
             m == (s[6] - 48) * 10 + (s[7] - 48)
             d == (s[9] - 48) * 10 + (s[10] - 48)
         IN  IF m >= 1 /\ m <= 12 /\ d >= 1 /\ d <= daysInMonth(y, m - 1)
             THEN [valid |-> TRUE, utcDay |-> DaysFromCivil(y, m, d)]
             ELSE [valid |-> FALSE]

\* The local calendar day of midnight UTC of utcDay, tz hours ahead of UTC.
LocalDay(utcDay, tz) == IF tz < 0 THEN utcDay - 1 ELSE utcDay

\* currentMonth: memoised once, at mount.
currentMonth == [year |-> getFullYear(Today0), month |-> getMonth(Today0)]

\* The reducer of monthlyExpenses.
RECURSIVE monthlyReduce(_, _, _, _, _)
monthlyReduce(txs, i, total, cm, tz) ==
    IF i > Len(txs) THEN total
    ELSE LET t == txs[i] IN
         IF ~(Has(t, "type") /\ t.type = "expense") \/ ~Has(t, "date") \/ t.date = <<>>
         THEN monthlyReduce(txs, i + 1, total, cm, tz)
         ELSE LET p == DateParse(t.date) IN
              IF ~p.valid THEN monthlyReduce(txs, i + 1, total, cm, tz)
              ELSE LET d == LocalDay(p.utcDay, tz) IN
                   IF getFullYear(d) = cm.year /\ getMonth(d) = cm.month
                   THEN monthlyReduce(txs, i + 1, total + orZero(amountOf(t)), cm, tz)
                   ELSE monthlyReduce(txs, i + 1, total, cm, tz)

\* Variant: the reducer runs over the filtered list.
monthlyExpensesOf_filtered(txs, f, tz) == monthlyReduce(f, 1, 0, currentMonth, tz)

\* The memo monthlyExpenses of a render that has the list txs and its filtered
\* part f at hand: it reduces txs.
monthlyExpensesOf(txs, f, tz) == monthlyReduce(txs, 1, 0, currentMonth, tz)

monthlyExpenses == monthlyExpensesOf(transactions, filtered, timezone)

\* A nullable number: null, or a value.
Null == [isNull |-> TRUE]
Num(n) == [isNull |-> FALSE, value |-> n]

\* Variant: any budget that is present counts as set.
budgetIsSet_present(monthlyBudget) == monthlyBudget # NULL

budgetIsSet(monthlyBudget) == monthlyBudget # NULL /\ monthlyBudget > 0

budgetRemaining(monthlyBudget, expenses) ==
    IF budgetIsSet(monthlyBudget) THEN Num(monthlyBudget - expenses) ELSE Null

\* Math.min(1, expenses / monthlyBudget) as a fraction <<numerator, denominator>>.
budgetSpentRatio(monthlyBudget, expenses) ==
    IF budgetIsSet(monthlyBudget) /\ monthlyBudget > 0
    THEN (IF expenses >= monthlyBudget THEN <<1, 1>> ELSE <<expenses, monthlyBudget>>)
    ELSE <<0, 1>>

\* Variant: Math.floor instead of Math.round.
MathRound_floor(n, d) == n \div d

\* Math.round of n / d (d > 0): floor(n / d + 1/2).  For the amounts of
\* SummarySettings the double n / d * 100 is nowhere within rounding error of a
\* half, so the exact quotient rounds as the double does.
MathRound(n, d) == ((2 * n) + d) \div (2 * d)

Min2(a, b) == IF a < b THEN a ELSE b
Max2(a, b) == IF a > b THEN a ELSE b

budgetProgressPercent(monthlyBudget, expenses) ==
    LET r == budgetSpentRatio(monthlyBudget, expenses)
    IN  Min2(100, Max2(0, MathRound(100 * r[1], r[2])))

\* monthlyBalanceHighlight = 'rose'
isOverBudget(monthlyBudget, expenses) ==
    LET b == budgetRemaining(monthlyBudget, expenses) IN ~b.isNull /\ b.value < 0

computedSavings == sums.balance

\* Variant: a manual amount counts only when it is truthy.
savings_truthy(savingAmount) == IF savingAmount = NULL \/ savingAmount = 0 THEN computedSavings ELSE savingAmount

savings(savingAmount) == IF savingAmount = NULL THEN computedSavings ELSE savingAmount
manualSavings(savingAmount) == savingAmount # NULL

\* A JavaScript object used as a map: its entries in insertion order.  Reading
\* the keys back (Object.keys / values / entries) yields the keys that are
\* array indices first, in ascending numeric order, then the other keys in
\* insertion order.
IntegerKeys == {"7", "2024"}
KeyNumber(k) == IF k = "7" THEN 7 ELSE 2024

HasKey(obj, k) == \E j \in 1..Len(obj) : obj[j].key = k
Get(obj, k) == obj[CHOOSE j \in 1..Len(obj) : obj[j].key = k].value

\* obj[k] = v
Put(obj, k, v) ==
    IF HasKey(obj, k)
    THEN [j \in 1..Len(obj) |-> IF obj[j].key = k THEN [key |-> k, value |-> v] ELSE obj[j]]
    ELSE Append(obj, [key |-> k, value |-> v])

OwnEntries(obj) ==
    SortSeq(SelectSeq(obj, LAMBDA en : en.key \in IntegerKeys),
            LAMBDA a, b : KeyNumber(a.key) < KeyNumber(b.key))
        \o SelectSeq(obj, LAMBDA en : en.key \notin IntegerKeys)

\* The loop of pieData: agg[t.category] = (agg[t.category] || 0) + t.amount.
RECURSIVE pieLoop(_, _, _)
pieLoop(f, i, agg) ==
    IF i > Len(f) THEN agg
    ELSE IF Has(f[i], "type") /\ f[i].type = "expense"
         THEN pieLoop(f, i + 1,
                  Put(agg, f[i].category,
                      Add(IF HasKey(agg, f[i].category) THEN orZero(Get(agg, f[i].category)) ELSE 0, amountOf(f[i]))))
         ELSE pieLoop(f, i + 1, agg)

\* Object.entries(agg).map(([name, value]) => ({ name, value }))
pieDataOf(f) ==
    LET en == OwnEntries(pieLoop(f, 1, <<>>))
    IN  [j \in 1..Len(en) |-> [name |-> en[j].key, value |-> en[j].value]]

pieData == pieDataOf(filtered)

TopN == 10

\* Array.prototype.sort((a, b) => b.expense - a.expense): stable, so an element
\* goes behind the elements that compare equal to it.
RECURSIVE InsertDesc(_, _)
InsertDesc(sorted, x) ==
    IF sorted = <<>> THEN <<x>>
    ELSE IF Head(sorted).expense >= x.expense THEN <<Head(sorted)>> \o InsertDesc(Tail(sorted), x)
    ELSE <<x>> \o sorted

RECURSIVE SortDesc(_, _, _)
SortDesc(xs, i, sorted) == IF i > Len(xs) THEN sorted ELSE SortDesc(xs, i + 1, InsertDesc(sorted, xs[i]))

\* The loop of byCategory: slot.expense += t.amount on the slot of the category.
RECURSIVE categoryLoop(_, _, _)
categoryLoop(f, i, agg) ==
    IF i > Len(f) THEN agg
    ELSE IF Has(f[i], "type") /\ f[i].type = "expense"
         THEN categoryLoop(f, i + 1,
                  Put(agg, f[i].category,
                      Add(IF HasKey(agg, f[i].category) THEN Get(agg, f[i].category) ELSE 0, amountOf(f[i]))))
         ELSE categoryLoop(f, i + 1, agg)

\* byCategory: Object.values(agg).sort(...).slice(0, 10)
byCategoryOf(f) ==
    LET en == OwnEntries(categoryLoop(f, 1, <<>>))
        slots == [j \in 1..Len(en) |-> [category |-> en[j].key, expense |-> en[j].value]]
        sorted == SortDesc(slots, 1, <<>>)
    IN  SubSeq(sorted, 1, Min2(TopN, Len(sorted)))

byCategory == byCategoryOf(filtered)

\* Inputs: documents with small amounts, a typeless one, one without a date,
\* one whose date is not a date and whose free-text category is "2024", and
\* the pair of the budget example.
NotADate == <<110, 47, 97>>     \* "n/a"

SummaryTxInputs ==
    { [type |-> "expense", amount |-> 1, category |-> "Food & Dining", note |-> NoteXaB, date |-> Iso(2024, 3, 1)],
      [amount |-> 2, category |-> "Food & Dining", date |-> Iso(2024, 3, 2)],
      [type |-> "income", amount |-> 5, category |-> "Salary", date |-> Iso(2024, 3, 2)],
      [type |-> "expense", amount |-> 4, category |-> "Salary"],
      [type |-> "expense", amount |-> 2, category |-> "2024", date |-> NotADate],
      [type |-> "expense", amount |-> 2, category |-> "Food & Dining", date |-> Iso(2024, 2, 29)],
      [type |-> "expense", amount |-> 1200000, category |-> "Food & Dining", date |-> Iso(2024, 3, 2)] }

SummarySettings ==
    { [savingAmount |-> NULL, monthlyBudget |-> NULL],
      [savingAmount |-> 0, monthlyBudget |-> 0],
      [savingAmount |-> 5, monthlyBudget |-> 3],
      [savingAmount |-> NULL, monthlyBudget |-> 8],
      [savingAmount |-> 0, monthlyBudget |-> 1000000] }

TimeZones == {-5, 7}

SummarySnapshots(cur) ==
    {<<t>> \o cur : t \in IF Len(cur) < MaxTx THEN SummaryTxInputs ELSE {}}
        \cup {SubSeq(cur, 1, i - 1) \o SubSeq(cur, i + 1, Len(cur)) : i \in 1..Len(cur)}

\* The settings have been loaded and nothing is in flight.
InitSummary ==
    /\ InitView /\ LegacyIdle /\ StatsIdle /\ StoreIdle /\ SidebarIdle
    /\ timezone \in TimeZones
    /\ settings \in SummarySettings /\ localSettings = settings /\ settingsDoc = DocOf(settings)
    /\ calls = [m \in Modals |-> IdleCall] /\ modalOpen = [m \in Modals |-> FALSE]
    /\ initWrites = 0 /\ snapDue = FALSE /\ lastOutcome = "none"

\* The handlers of the view, rendered on a day on which midnight does not pass.
NextSummary ==
    \/ \E items \in SummarySnapshots(transactions) :
          OnSnapshot(items, 0) /\ UNCHANGED <<legacyVars, settingsVars, envVars, statsVars, storeVars, sidebarVars>>
    \/ \E v \in TypeFilters :
          SetTypeFilter(v, 0) /\ UNCHANGED <<legacyVars, settingsVars, envVars, statsVars, storeVars, sidebarVars>>
    \/ \E v \in CategoryFilters :
          SetCategoryFilter(v, 0) /\ UNCHANGED <<legacyVars, settingsVars, envVars, statsVars, storeVars, sidebarVars>>
    \/ \E v \in Queries :
          SetQueryText(v, 0) /\ UNCHANGED <<legacyVars, settingsVars, envVars, statsVars, storeVars, sidebarVars>>
    \/ \E v \in StartDates :
          SetStartDate(v, 0) /\ UNCHANGED <<legacyVars, settingsVars, envVars, statsVars, storeVars, sidebarVars>>
    \/ \E v \in EndDates :
          SetEndDate(v, 0) /\ UNCHANGED <<legacyVars, settingsVars, envVars, statsVars, storeVars, sidebarVars>>

SpecSummary == InitSummary /\ [][NextSummary]_vars

-----------------------------------------------------------------------------
\* StatsView.  A document's date and createdAt are Timestamps; toDate() gives
\* a Date, here its local day number.  TransactionForm stores the chosen
\* means of payment under `means`, not under `wallet`.

StatsTxInputs ==
    { [type |-> "income", wallet |-> "bank", amount |-> 1000, category |-> "Salary", date |-> 19783, createdAt |-> 19790],
      [type |-> "income", means |-> "bank", amount |-> 30, category |-> "Other", date |-> 19782, createdAt |-> 19782],
      [type |-> "expense", wallet |-> "cash", amount |-> 300, category |-> "Food & Drink", date |-> 19782, createdAt |-> 19783],
      [type |-> "expense", wallet |-> "bank", amount |-> 40, category |-> "Housing", date |-> 19783, createdAt |-> 19783],
      [wallet |-> "bank", amount |-> 200, category |-> "Other", date |-> 19783, createdAt |-> 19790],
      [means |-> "cash", amount |-> 7, category |-> "Food & Drink", date |-> 19416, createdAt |-> 19782] }

\* t.wallet || 'cash', variant: a record without a wallet belongs to no wallet.
walletOrCash_none(t) == IF Has(t, "wallet") THEN t.wallet ELSE "none"

\* t.wallet || 'cash'
walletOrCash(t) == IF Has(t, "wallet") THEN t.wallet ELSE "cash"

statsExpenseTx(txs) == SelectSeq(txs, LAMBDA t : typeOrExpense(t) = "expense")
statsIncomeTx(txs) == SelectSeq(txs, LAMBDA t : Has(t, "type") /\ t.type = "income")

cashIncome(txs) == reduceAmount(SelectSeq(statsIncomeTx(txs), LAMBDA t : walletOrCash(t) = "cash"), 1, 0)
bankIncome(txs) == reduceAmount(SelectSeq(statsIncomeTx(txs), LAMBDA t : walletOrCash(t) = "bank"), 1, 0)
cashExpense(txs) == reduceAmount(SelectSeq(statsExpenseTx(txs), LAMBDA t : walletOrCash(t) = "cash"), 1, 0)
bankExpense(txs) == reduceAmount(SelectSeq(statsExpenseTx(txs), LAMBDA t : walletOrCash(t) = "bank"), 1, 0)

cashBalance(txs) == cashIncome(txs) - cashExpense(txs)
bankBalance(txs) == bankIncome(txs) - bankExpense(txs)

statsTotalExpense(txs) == reduceAmount(statsExpenseTx(txs), 1, 0)
statsTotalIncome(txs) == reduceAmount(statsIncomeTx(txs), 1, 0)

\* date-fns format(d, 'yyyy-MM')
formatYearMonth(d) ==
    addLeadingZeros(DecStr(getFullYear(d)), 4) \o <<45>> \o addLeadingZeros(DecStr(getMonth(d) + 1), 2)

\* Variant: the amount is assigned to the bucket instead of added to it.
RECURSIVE aggregateByCategory_overwrite(_, _, _)
aggregateByCategory_overwrite(txs, i, map) ==
    IF i > Len(txs) THEN map
    ELSE aggregateByCategory_overwrite(txs, i + 1, Put(map, txs[i].category, txs[i].amount))

\* aggregateByCategory: the forEach loop from index i on, with the map so far.
RECURSIVE aggregateByCategory(_, _, _)
aggregateByCategory(txs, i, map) ==
    IF i > Len(txs) THEN map
    ELSE LET key == txs[i].category
         IN  aggregateByCategory(txs, i + 1,
                 Put(map, key, (IF HasKey(map, key) THEN Get(map, key) ELSE 0) + txs[i].amount))

statsByCategory(txs) == aggregateByCategory(statsExpenseTx(txs), 1, <<>>)

\* tx.date.toDate() where tx.date is undefined: a TypeError is thrown.
toDateThrows(t) == ~Has(t, "date")

\* aggregateByMonth(txs) ends by an exception, which leaves the loop (and the
\* render of StatsView that called it) where it stands.
aggregateByMonthThrows(txs) == \E i \in 1..Len(txs) : toDateThrows(txs[i])

\* Variant: the month key is taken from createdAt.
RECURSIVE aggregateByMonth_createdAt(_, _, _)
aggregateByMonth_createdAt(txs, i, map) ==
    IF i > Len(txs) THEN map
    ELSE LET key == formatYearMonth(txs[i].createdAt)
         IN  aggregateByMonth_createdAt(txs, i + 1,
                 Put(map, key, (IF HasKey(map, key) THEN Get(map, key) ELSE 0) + txs[i].amount))

\* aggregateByMonth: the forEach loop from index i on, with the map so far.
RECURSIVE aggregateByMonth(_, _, _)
aggregateByMonth(txs, i, map) ==
    IF i > Len(txs) \/ toDateThrows(txs[i]) THEN map
    ELSE LET key == formatYearMonth(txs[i].date)
         IN  aggregateByMonth(txs, i + 1,
                 Put(map, key, (IF HasKey(map, key) THEN Get(map, key) ELSE 0) + txs[i].amount))

byMonth(txs) == aggregateByMonth(statsExpenseTx(txs), 1, <<>>)
byMonthIncome(txs) == aggregateByMonth(statsIncomeTx(txs), 1, <<>>)

InitStats == statsTx = <<>>

StatsNextSnapshots(cur) ==
    {<<t>> \o cur : t \in IF Len(cur) < MaxStatsTx THEN StatsTxInputs ELSE {}}
        \cup {SubSeq(cur, 1, i - 1) \o SubSeq(cur, i + 1, Len(cur)) : i \in 1..Len(cur)}

\* The onSnapshot callback.
StatsOnSnapshot(data) == statsTx' = data

InitSpecStats == InitView /\ LegacyIdle /\ SettingsIdle /\ EnvIdle /\ InitStats /\ StoreIdle /\ SidebarIdle

NextStats ==
    \E data \in StatsNextSnapshots(statsTx) :
        StatsOnSnapshot(data) /\ UNCHANGED <<viewVars, legacyVars, settingsVars, envVars, storeVars, sidebarVars>>

SpecStats == InitSpecStats /\ [][NextStats]_vars

\* StatsView fed documents some of which have no date.
StatsDateInputs ==
    { [type |-> "expense", wallet |-> "cash", amount |-> 300, category |-> "Food & Drink", date |-> 19782, createdAt |-> 19783],
      [type |-> "expense", wallet |-> "bank", amount |-> 40, category |-> "Housing", createdAt |-> 19783],
      [type |-> "income", wallet |-> "bank", amount |-> 1000, category |-> "Salary", date |-> 19783, createdAt |-> 19790],
      [type |-> "income", means |-> "bank", amount |-> 30, category |-> "Other", createdAt |-> 19782],
      [wallet |-> "bank", amount |-> 200, category |-> "Other", date |-> 19416, createdAt |-> 19790] }

StatsDateSnapshots(cur) ==
    {<<t>> \o cur : t \in IF Len(cur) < MaxStatsTx THEN StatsDateInputs ELSE {}}
        \cup {SubSeq(cur, 1, i - 1) \o SubSeq(cur, i + 1, Len(cur)) : i \in 1..Len(cur)}

InitSpecStatsDates == InitView /\ LegacyIdle /\ SettingsIdle /\ EnvIdle /\ InitStats /\ StoreIdle /\ SidebarIdle

NextStatsDates ==
    \E data \in StatsDateSnapshots(statsTx) :
        StatsOnSnapshot(data) /\ UNCHANGED <<viewVars, legacyVars, settingsVars, envVars, storeVars, sidebarVars>>

SpecStatsDates == InitSpecStatsDates /\ [][NextStatsDates]_vars

-----------------------------------------------------------------------------
\* FinanceTrackerApp fed documents whose amount is missing or is NaN (the
\* legacy edit form stores parseFloat('') when the amount field is emptied).

AmountTxInputs ==
    { [type |-> "expense", amount |-> 3, category |-> "Food & Dining", date |-> Iso(2024, 3, 1)],
      [type |-> "expense", category |-> "Food & Dining", date |-> Iso(2024, 3, 1)],
      [type |-> "expense", amount |-> NaN, category |-> "Salary", date |-> Iso(2024, 3, 1)],
      [type |-> "income", amount |-> 5, category |-> "Salary", date |-> Iso(2024, 3, 1)],
      [type |-> "income", category |-> "Salary", date |-> Iso(2024, 2, 29)] }

AmountSnapshots(cur) ==
    {<<t>> \o cur : t \in IF Len(cur) < MaxTx THEN AmountTxInputs ELSE {}}
        \cup {SubSeq(cur, 1, i - 1) \o SubSeq(cur, i + 1, Len(cur)) : i \in 1..Len(cur)}

InitSpecAmounts == InitView /\ LegacyIdle /\ SettingsIdle /\ EnvIdle /\ StatsIdle /\ StoreIdle /\ SidebarIdle

NextAmounts ==
    \/ \E items \in AmountSnapshots(transactions) :
          OnSnapshot(items, 0) /\ UNCHANGED <<legacyVars, settingsVars, envVars, statsVars, storeVars, sidebarVars>>
    \/ \E v \in TypeFilters :
          SetTypeFilter(v, 0) /\ UNCHANGED <<legacyVars, settingsVars, envVars, statsVars, storeVars, sidebarVars>>
    \/ \E v \in CategoryFilters :
          SetCategoryFilter(v, 0) /\ UNCHANGED <<legacyVars, settingsVars, envVars, statsVars, storeVars, sidebarVars>>
    \/ \E v \in StartDates :
          SetStartDate(v, 0) /\ UNCHANGED <<legacyVars, settingsVars, envVars, statsVars, storeVars, sidebarVars>>
    \/ \E v \in EndDates :
          SetEndDate(v, 0) /\ UNCHANGED <<legacyVars, settingsVars, envVars, statsVars, storeVars, sidebarVars>>

SpecAmounts == InitSpecAmounts /\ [][NextAmounts]_vars

-----------------------------------------------------------------------------
\* FinanceTrackerApp.exportCSV: the text handed to the Blob.

\* The code units of the strings the model writes as TLA+ strings.
CodeUnits(s) ==
    CASE s = "income" -> <<105, 110, 99, 111, 109, 101>>
      [] s = "expense" -> <<101, 120, 112, 101, 110, 115, 101>>
      [] s = "Salary" -> <<83, 97, 108, 97, 114, 121>>
      [] s = "Food & Dining" -> <<70, 111, 111, 100, 32, 38, 32, 68, 105, 110, 105, 110, 103>>

\* cells.join(sep)
RECURSIVE join(_, _)
join(cells, sep) ==
    IF Len(cells) = 0 THEN <<>>
    ELSE IF Len(cells) = 1 THEN cells[1]
    ELSE cells[1] \o <<sep>> \o join(Tail(cells), sep)

\* s.replace(/\n/g, ' ')
replaceNewlines(s) == [i \in 1..Len(s) |-> IF s[i] = 10 THEN 32 ELSE s[i]]

\* ['type', 'amount', 'category', 'note', 'date'].join(',')
csvHeader == <<116, 121, 112, 101, 44, 97, 109, 111, 117, 110, 116, 44, 99, 97, 116, 101, 103, 111, 114, 121, 44, 110, 111, 116, 101, 44, 100, 97, 116, 101>>

\* The cells of one row; join() writes undefined as the empty string.
csvCells(t) ==
    << IF Has(t, "type") THEN CodeUnits(t.type) ELSE <<>>,
       DecStr(t.amount),
       CodeUnits(t.category),
       replaceNewlines(noteOf(t)),
       IF Has(t, "date") THEN t.date ELSE <<>> >>

csvRow(t) == join(csvCells(t), 44)

\* header + '\n' + rows
exportCSV(f) == csvHeader \o <<10>> \o join([j \in 1..Len(f) |-> csvRow(f[j])], 10)

NoteComma == <<97, 44, 98>>     \* "a,b"
NoteLines == <<97, 10, 98>>     \* "a\nb"

ExportTxInputs ==
    { [type |-> "income", amount |-> 1000, category |-> "Salary", note |-> NoteXaB, date |-> Iso(2024, 3, 1)],
      [type |-> "expense", amount |-> 300, category |-> "Food & Dining", note |-> NoteLines, date |-> Iso(2024, 3, 1)],
      [amount |-> 200, category |-> "Food & Dining", date |-> Iso(2024, 3, 1)],
      [type |-> "expense", amount |-> 40, category |-> "Food & Dining", note |-> NoteComma, date |-> Iso(2024, 3, 1)],
      [type |-> "expense", amount |-> 50, category |-> "Salary", note |-> NoteB, date |-> Iso(2024, 1, 30)] }

ExportSnapshots(cur) ==
    {<<t>> \o cur : t \in IF Len(cur) < MaxTx THEN ExportTxInputs ELSE {}}
        \cup {SubSeq(cur, 1, i - 1) \o SubSeq(cur, i + 1, Len(cur)) : i \in 1..Len(cur)}

InitSpecExport == InitView /\ LegacyIdle /\ SettingsIdle /\ EnvIdle /\ StatsIdle /\ StoreIdle /\ SidebarIdle

NextExport ==
    \/ \E items \in ExportSnapshots(transactions) :
          OnSnapshot(items, 0) /\ UNCHANGED <<legacyVars, settingsVars, envVars, statsVars, storeVars, sidebarVars>>
    \/ \E v \in TypeFilters :
          SetTypeFilter(v, 0) /\ UNCHANGED <<legacyVars, settingsVars, envVars, statsVars, storeVars, sidebarVars>>
    \/ \E v \in Queries :
          SetQueryText(v, 0) /\ UNCHANGED <<legacyVars, settingsVars, envVars, statsVars, storeVars, sidebarVars>>
    \/ \E v \in StartDates :
          SetStartDate(v, 0) /\ UNCHANGED <<legacyVars, settingsVars, envVars, statsVars, storeVars, sidebarVars>>

SpecExport == InitSpecExport /\ [][NextExport]_vars

-----------------------------------------------------------------------------
\* useTransactions: add, remove and update, called from the add forms and
\* from TransactionTable, against Firestore or (no db) against local storage.
\* Document ids are 1, 2, ...; createdAt is the rank of the write.

MaxAdds == 2        \* documents added by this client

\* Variant: the document is replaced by the patch.
assign_replace(t, patch) ==
    [f \in {"id"} \cup DOMAIN patch |-> IF f \in DOMAIN patch THEN patch[f] ELSE t[f]]

\* { ...t, ...patch }
assign(t, patch) ==
    [f \in DOMAIN t \cup DOMAIN patch |-> IF f \in DOMAIN patch THEN patch[f] ELSE t[f]]

\* What TxForm submits: { type, amount, category, note, date }.
Payloads ==
    { [type |-> "expense", amount |-> 3, category |-> "Food & Dining", note |-> NoteB, date |-> Iso(2024, 3, 1)],
      [type |-> "income", amount |-> 5, category |-> "Salary", note |-> <<>>, date |-> Iso(2024, 2, 29)] }

\* A document another version of the app wrote, with a field TxForm does not know.
SeedDoc ==
    [id |-> 1, type |-> "expense", amount |-> 9, category |-> "Salary", wallet |-> "bank",
     date |-> Iso(2024, 3, 1), createdAt |-> 1]

\* query(collection, orderBy('createdAt', 'desc')): the documents, newest first.
RECURSIVE SortedDocs(_)
SortedDocs(S) ==
    IF S = {} THEN <<>>
    ELSE LET d == CHOOSE x \in S : \A y \in S : x.createdAt >= y.createdAt
         IN  <<d>> \o SortedDocs(S \ {d})

InitStore ==
    /\ source \in {"firestore", "local"}
    /\ txDocs \in IF source = "firestore" THEN {{}, {SeedDoc}} ELSE {{}}
    /\ idsUsed = Cardinality(txDocs)
    /\ txSnapDue = (source = "firestore")
    /\ transactionsLS = <<>> /\ editingId = NoId /\ lastOp = [op |-> "none"]

\* setTransactions(next) and the render it causes.
setTransactions(next) == OnSnapshot(next, 0)

add(tx) ==
    /\ idsUsed < MaxAdds + 1
    /\ idsUsed' = idsUsed + 1
    /\ lastOp' = [op |-> "add", id |-> idsUsed + 1]
    /\ LET item == assign(tx, [id |-> idsUsed + 1, createdAt |-> idsUsed + 1])
       IN  IF source = "local"
           THEN /\ transactionsLS' = <<item>> \o transactionsLS
                /\ setTransactions(<<item>> \o transactions)
                /\ UNCHANGED <<txDocs, txSnapDue>>
           ELSE /\ txDocs' = txDocs \cup {item}
                /\ txSnapDue' = TRUE
                /\ UNCHANGED <<viewVars, transactionsLS>>
    /\ UNCHANGED <<source, editingId>>

remove(id) ==
    /\ lastOp' = [op |-> "remove", id |-> id]
    /\ IF source = "local"
       THEN LET next == SelectSeq(transactions, LAMBDA t : t.id # id)
            IN  /\ transactionsLS' = next
                /\ setTransactions(next)
                /\ UNCHANGED <<txDocs, txSnapDue>>
       ELSE /\ txDocs' = {d \in txDocs : d.id # id}
            /\ txSnapDue' = TRUE
            /\ UNCHANGED <<viewVars, transactionsLS>>
    /\ UNCHANGED <<source, idsUsed>>

\* updateDoc rejects when the document does not exist.
update(id, patch) ==
    /\ lastOp' = [op |-> "update", id |-> id, patch |-> patch]
    /\ IF source = "local"
       THEN LET next == [i \in 1..Len(transactions) |->
                            IF transactions[i].id = id THEN assign(transactions[i], patch)
                            ELSE transactions[i]]
            IN  /\ transactionsLS' = next
                /\ setTransactions(next)
                /\ UNCHANGED <<txDocs, txSnapDue>>
       ELSE /\ txDocs' = {IF d.id = id THEN assign(d, patch) ELSE d : d \in txDocs}
            /\ txSnapDue' = (txSnapDue \/ \E d \in txDocs : d.id = id)
            /\ UNCHANGED <<viewVars, transactionsLS>>
    /\ UNCHANGED <<source, idsUsed>>

\* The Delete button of a row of the table.
onDelete(i) ==
    /\ editingId = NoId
    /\ remove(filtered[i].id)
    /\ UNCHANGED editingId

\* Another client deletes a document.
RemoteRemove(id) ==
    /\ source = "firestore"
    /\ remove(id)
    /\ UNCHANGED editingId

\* The Edit button of a row: setEditingId(t.id); setBuffer(t).
StartEdit(i) ==
    /\ editingId = NoId
    /\ editingId' = filtered[i].id
    /\ lastOp' = [op |-> "none"]
    /\ UNCHANGED <<viewVars, source, txDocs, transactionsLS, idsUsed, txSnapDue>>

\* Modal onClose.
CancelEdit ==
    /\ editingId # NoId
    /\ editingId' = NoId
    /\ lastOp' = [op |-> "none"]
    /\ UNCHANGED <<viewVars, source, txDocs, transactionsLS, idsUsed, txSnapDue>>

\* onSubmit of the edit modal.
SubmitEdit(patch) ==
    /\ editingId # NoId
    /\ update(editingId, patch)
    /\ editingId' = NoId

\* The onSnapshot callback of useTransactions.
StoreSnapshot ==
    /\ source = "firestore" /\ txSnapDue
    /\ txSnapDue' = FALSE
    /\ setTransactions(SortedDocs(txDocs))
    /\ lastOp' = [op |-> "snapshot"]
    /\ UNCHANGED <<source, txDocs, transactionsLS, editingId, idsUsed>>

InitSpecStore == InitView /\ LegacyIdle /\ SettingsIdle /\ EnvIdle /\ StatsIdle /\ InitStore /\ SidebarIdle

NextStore ==
    \/ \E tx \in Payloads : add(tx) /\ UNCHANGED <<legacyVars, settingsVars, envVars, statsVars, sidebarVars>>
    \/ \E i \in 1..Len(filtered) : onDelete(i) /\ UNCHANGED <<legacyVars, settingsVars, envVars, statsVars, sidebarVars>>
    \/ \E d \in txDocs : RemoteRemove(d.id) /\ UNCHANGED <<legacyVars, settingsVars, envVars, statsVars, sidebarVars>>
    \/ \E i \in 1..Len(filtered) : StartEdit(i) /\ UNCHANGED <<legacyVars, settingsVars, envVars, statsVars, sidebarVars>>
    \/ CancelEdit /\ UNCHANGED <<legacyVars, settingsVars, envVars, statsVars, sidebarVars>>
    \/ \E patch \in Payloads : SubmitEdit(patch) /\ UNCHANGED <<legacyVars, settingsVars, envVars, statsVars, sidebarVars>>
    \/ StoreSnapshot /\ UNCHANGED <<legacyVars, settingsVars, envVars, statsVars, sidebarVars>>

SpecStore == InitSpecStore /\ [][NextStore]_vars

-----------------------------------------------------------------------------
\* Sidebar: the wishlist.  Document ids are 1..MaxWishIds, handed out in any
\* order (Firestore auto-ids), each once; a snapshot of the collection lists
\* the documents by id.

MaxWishIds == 3     \* wishlist documents ever created

WishTexts == {"a", "b"}

\* collection(db, 'wishlist') snapshot: snap.docs.map(...)
RECURSIVE WishList(_)
WishList(S) ==
    IF S = {} THEN <<>>
    ELSE LET d == CHOOSE x \in S : \A y \in S : x.id <= y.id
         IN  <<d>> \o WishList(S \ {d})

InitSidebar ==
    /\ wishDocs = {} /\ wishUsed = {} /\ sidebarItems = <<>>
    /\ editingIdx = 0 /\ editingText = "" /\ editedItem = NoId
    /\ lastWish = [op |-> "none"] /\ wishSnapDue = TRUE

\* The onSnapshot callback: setItems(...).
WishSnapshot ==
    /\ wishSnapDue
    /\ wishSnapDue' = FALSE
    /\ sidebarItems' = WishList(wishDocs)
    /\ lastWish' = [op |-> "none"]
    /\ UNCHANGED <<wishDocs, wishUsed, editingIdx, editingText, editedItem>>

handleAddItem(text) ==
    /\ \E id \in (1..MaxWishIds) \ wishUsed :
          /\ wishDocs' = wishDocs \cup {[id |-> id, text |-> text, checked |-> FALSE]}
          /\ wishUsed' = wishUsed \cup {id}
          /\ lastWish' = [op |-> "add", id |-> id]
    /\ wishSnapDue' = TRUE
    /\ UNCHANGED <<sidebarItems, editingIdx, editingText, editedItem>>

\* updateDoc(doc(db, 'wishlist', id), patch): rejected when there is no such
\* document.
wishUpdate(id, field, value) ==
    /\ wishDocs' = {IF d.id = id THEN [d EXCEPT ![field] = value] ELSE d : d \in wishDocs}
    /\ wishSnapDue' = (wishSnapDue \/ wishDocs' # wishDocs)

handleCheck(idx) ==
    /\ LET item == sidebarItems[idx]
       IN  /\ wishUpdate(item.id, "checked", ~item.checked)
           /\ lastWish' = [op |-> "check", id |-> item.id, clicked |-> sidebarItems[idx].id]
    /\ UNCHANGED <<wishUsed, sidebarItems, editingIdx, editingText, editedItem>>

handleRemove(idx) ==
    /\ LET item == sidebarItems[idx]
       IN  /\ wishDocs' = {d \in wishDocs : d.id # item.id}
           /\ wishSnapDue' = (wishSnapDue \/ wishDocs' # wishDocs)
           /\ lastWish' = [op |-> "remove", id |-> item.id, clicked |-> sidebarItems[idx].id]
    /\ UNCHANGED <<wishUsed, sidebarItems, editingIdx, editingText, editedItem>>

handleEdit(idx) ==
    /\ editingIdx' = idx
    /\ editingText' = sidebarItems[idx].text
    /\ editedItem' = sidebarItems[idx].id
    /\ lastWish' = [op |-> "none"]
    /\ UNCHANGED <<wishDocs, wishUsed, sidebarItems, wishSnapDue>>

\* onChange of the edit input: setEditingText(e.target.value)
setEditingText(text) ==
    /\ editingIdx \in 1..Len(sidebarItems)
    /\ text # editingText
    /\ editingText' = text
    /\ lastWish' = [op |-> "none"]
    /\ UNCHANGED <<wishDocs, wishUsed, sidebarItems, editingIdx, editedItem, wishSnapDue>>

\* The save button is rendered in the row whose index is editingIdx; the
\* statements after the await run when the write was not rejected.
handleEditSave(idx) ==
    /\ LET item == sidebarItems[idx]
       IN  /\ wishUpdate(item.id, "text", editingText)
           /\ lastWish' = [op |-> "text", id |-> item.id, started |-> editedItem]
           /\ IF \E d \in wishDocs : d.id = item.id
              THEN editingIdx' = 0 /\ editingText' = "" /\ editedItem' = NoId
              ELSE UNCHANGED <<editingIdx, editingText, editedItem>>
    /\ UNCHANGED <<wishUsed, sidebarItems>>

handleEditCancel ==
    /\ editingIdx \in 1..Len(sidebarItems)
    /\ editingIdx' = 0 /\ editingText' = "" /\ editedItem' = NoId
    /\ lastWish' = [op |-> "none"]
    /\ UNCHANGED <<wishDocs, wishUsed, sidebarItems, wishSnapDue>>

InitSpecSidebar == InitView /\ LegacyIdle /\ SettingsIdle /\ EnvIdle /\ StatsIdle /\ StoreIdle /\ InitSidebar

NextSidebar ==
    \/ WishSnapshot /\ UNCHANGED <<viewVars, legacyVars, settingsVars, envVars, statsVars, storeVars>>
    \/ \E text \in WishTexts :
          handleAddItem(text) /\ UNCHANGED <<viewVars, legacyVars, settingsVars, envVars, statsVars, storeVars>>
    \/ \E idx \in 1..Len(sidebarItems) :
          handleCheck(idx) /\ UNCHANGED <<viewVars, legacyVars, settingsVars, envVars, statsVars, storeVars>>
    \/ \E idx \in 1..Len(sidebarItems) :
          handleRemove(idx) /\ UNCHANGED <<viewVars, legacyVars, settingsVars, envVars, statsVars, storeVars>>
    \/ \E idx \in 1..Len(sidebarItems) :
          idx # editingIdx /\ handleEdit(idx)
              /\ UNCHANGED <<viewVars, legacyVars, settingsVars, envVars, statsVars, storeVars>>
    \/ \E text \in WishTexts :
          setEditingText(text) /\ UNCHANGED <<viewVars, legacyVars, settingsVars, envVars, statsVars, storeVars>>
    \/ \E idx \in 1..Len(sidebarItems) :
          idx = editingIdx /\ handleEditSave(idx)
              /\ UNCHANGED <<viewVars, legacyVars, settingsVars, envVars, statsVars, storeVars>>
    \/ handleEditCancel /\ UNCHANGED <<viewVars, legacyVars, settingsVars, envVars, statsVars, storeVars>>

SpecSidebar == InitSpecSidebar /\ [][NextSidebar]_vars

-----------------------------------------------------------------------------
\* Both views listening to the collection, each holding its own copy of it in
\* the order its snapshots delivered.

MaxOrderTx == 3

OrderTxInputs ==
    { [type |-> "expense", amount |-> 1, category |-> "Food & Dining", date |-> Iso(2024, 3, 1)],
      [type |-> "expense", amount |-> 2, category |-> "Food & Dining", date |-> Iso(2024, 3, 1)],
      [type |-> "income", amount |-> 5, category |-> "Salary", date |-> Iso(2024, 3, 1)],
      [type |-> "expense", amount |-> 4, category |-> "7", date |-> Iso(2024, 2, 29)] }

OrderSnapshots(cur) ==
    {<<t>> \o cur : t \in IF Len(cur) < MaxOrderTx THEN OrderTxInputs ELSE {}}
        \cup {SubSeq(cur, 1, i - 1) \o SubSeq(cur, i + 1, Len(cur)) : i \in 1..Len(cur)}

InitSpecOrder == InitView /\ LegacyIdle /\ SettingsIdle /\ EnvIdle /\ InitStats /\ StoreIdle /\ SidebarIdle

NextOrder ==
    \/ \E items \in OrderSnapshots(transactions) :
          OnSnapshot(items, 0) /\ UNCHANGED <<legacyVars, settingsVars, envVars, statsVars, storeVars, sidebarVars>>
    \/ \E data \in StatsNextSnapshots(statsTx) :
          StatsOnSnapshot(data) /\ UNCHANGED <<viewVars, legacyVars, settingsVars, envVars, storeVars, sidebarVars>>

SpecOrder == InitSpecOrder /\ [][NextOrder]_vars

-----------------------------------------------------------------------------
\* Reference definitions the properties are stated with.

\* The type a record counts as: a record without a type is an expense.
EffectiveType(t) == IF Has(t, "type") THEN t.type ELSE "expense"

\* Sum of the amounts of f at the indices I.
RECURSIVE SumAmounts(_, _)
SumAmounts(f, I) ==
    IF I = {} THEN 0
    ELSE LET i == CHOOSE x \in I : TRUE IN f[i].amount + SumAmounts(f, I \ {i})

\* The elements of txs at the indices I, in list order.
RECURSIVE PickFrom(_, _, _)
PickFrom(txs, i, I) ==
    IF i > Len(txs) THEN <<>>
    ELSE (IF i \in I THEN <<txs[i]>> ELSE <<>>) \o PickFrom(txs, i + 1, I)

\* A "YYYY-MM-DD" string read as a civil date <<y, m, d>>.
ParseISO(s) ==
    <<(s[1] - 48) * 1000 + (s[2] - 48) * 100 + (s[3] - 48) * 10 + (s[4] - 48),
      (s[6] - 48) * 10 + (s[7] - 48),
      (s[9] - 48) * 10 + (s[10] - 48)>>

\* Chronological rank of a civil date.
DateRank(s) == LET c == ParseISO(s) IN c[1] * 10000 + c[2] * 100 + c[3]

IsLeap(y) == (y % 4 = 0 /\ y % 100 # 0) \/ y % 400 = 0

MonthLen(y, m) ==
    IF m = 2 THEN (IF IsLeap(y) THEN 29 ELSE 28)
    ELSE IF m \in {4, 6, 9, 11} THEN 30 ELSE 31

\* The civil date of the next calendar day.
NextCivil(c) ==
    IF c[3] < MonthLen(c[1], c[2]) THEN <<c[1], c[2], c[3] + 1>>
    ELSE IF c[2] < 12 THEN <<c[1], c[2] + 1, 1>>
    ELSE <<c[1] + 1, 1, 1>>

\* The civil date of a day number, counted up from 1970-01-01.
RECURSIVE WalkMonths(_, _, _)
WalkMonths(y, m, n) ==
    IF n >= MonthLen(y, m) THEN WalkMonths(y, m + 1, n - MonthLen(y, m)) ELSE <<y, m, n + 1>>
RECURSIVE WalkYears(_, _)
WalkYears(y, n) ==
    LET len == IF IsLeap(y) THEN 366 ELSE 365
    IN  IF n >= len THEN WalkYears(y + 1, n - len) ELSE WalkMonths(y, 1, n)
CivilOfDay(d) == WalkYears(1970, d)

\* One filter at a time: does applyFilters keep t when only that filter is set?
OnlyType(t) == applyFilters(<<t>>, typeFilter, "all", <<>>, <<>>, <<>>) = <<t>>
OnlyCategory(t) == applyFilters(<<t>>, "all", categoryFilter, <<>>, <<>>, <<>>) = <<t>>
OnlyText(t) == applyFilters(<<t>>, "all", "all", queryText, <<>>, <<>>) = <<t>>
OnlyDate(t) == applyFilters(<<t>>, "all", "all", <<>>, startDate, endDate) = <<t>>

Idx == 1..Len(transactions)

\* The indices of the transactions the current filters keep.
KeptIdx == {i \in Idx : applyFilters(<<transactions[i]>>, typeFilter, categoryFilter, queryText, startDate, endDate) # <<>>}

\* Same letter, ignoring ASCII case.
Fold(c) == IF c >= 65 /\ c <= 90 THEN c + 32 ELSE c
ContainsIgnoringCase(note, q) ==
    \E k \in 0..(Len(note) - Len(q)) : \A i \in 1..Len(q) : Fold(note[k + i]) = Fold(q[i])

-----------------------------------------------------------------------------
\* Properties.

\* C1: totalsByType gives income = sum of the amounts of income records,
\* expense = sum of the amounts of records whose effective type is expense (a
\* record without a type counts), balance = income - expense; the documented
\* example gives 1000 / 500 / 500.  The totals of the legacy list component
\* obey the same equations.
C1_TotalsByType ==
    /\ sums.income = SumAmounts(filtered, {i \in DOMAIN filtered : Has(filtered[i], "type") /\ filtered[i].type = "income"})
    /\ sums.expense = SumAmounts(filtered, {i \in DOMAIN filtered : EffectiveType(filtered[i]) = "expense"})
    /\ sums.balance = sums.income - sums.expense
    /\ totalIncome(transactions) = SumAmounts(transactions, {i \in Idx : EffectiveType(transactions[i]) = "income"})
    /\ totalExpense(transactions) = SumAmounts(transactions, {i \in Idx : EffectiveType(transactions[i]) = "expense"})
    /\ totalBalance(transactions) = totalIncome(transactions) - totalExpense(transactions)
    /\ totalsByType(<<[type |-> "income", amount |-> 1000], [type |-> "expense", amount |-> 300], [amount |-> 200]>>)
           = [income |-> 1000, expense |-> 500, balance |-> 500]

C1_Witness ==
    /\ \E i, j \in DOMAIN filtered : ~Has(filtered[i], "type") /\ EffectiveType(filtered[j]) = "income"
    /\ sums = [income |-> 1000, expense |-> 200, balance |-> 800]

\* C2: applyFilters keeps exactly the transactions that pass each of the four
\* filters taken alone, in list order; 'all' passes every record for type and
\* for category; another category filter passes exactly the records of that
\* category.
C2_FiltersAnded ==
    /\ filtered = PickFrom(transactions, 1,
                     {i \in Idx : OnlyType(transactions[i]) /\ OnlyCategory(transactions[i])
                                    /\ OnlyText(transactions[i]) /\ OnlyDate(transactions[i])})
    /\ \A i \in Idx :
          /\ typeFilter = "all" => OnlyType(transactions[i])
          /\ categoryFilter = "all" => OnlyCategory(transactions[i])
          /\ categoryFilter # "all" => (OnlyCategory(transactions[i]) <=> transactions[i].category = categoryFilter)

C2_Witness ==
    /\ typeFilter # "all" /\ categoryFilter # "all" /\ queryText # <<>> /\ startDate # <<>> /\ endDate # <<>>
    /\ Len(transactions) = 2 /\ filtered = <<transactions[2]>>
    /\ OnlyType(transactions[1]) /\ OnlyCategory(transactions[1]) /\ OnlyText(transactions[1])

\* C3 (as claimed): under a type filter other than 'all' a transaction passes
\* the type predicate iff its effective type equals the filter, so a record
\* without a type is kept under 'expense'.
C3_EffectiveTypeFilter ==
    typeFilter # "all" =>
        \A i \in Idx : OnlyType(transactions[i]) <=> EffectiveType(transactions[i]) = typeFilter

\* C4: a transaction with a date passes the date predicate iff its calendar
\* date is not before startDate and not after endDate (both inclusive); an
\* absent bound does not constrain.
C4_DateRangeInclusive ==
    \A i \in Idx :
        Has(transactions[i], "date") =>
            (OnlyDate(transactions[i]) <=>
                /\ startDate = <<>> \/ DateRank(startDate) <= DateRank(transactions[i].date)
                /\ endDate = <<>> \/ DateRank(transactions[i].date) <= DateRank(endDate))

C4_Witness ==
    /\ startDate # <<>> /\ endDate # <<>> /\ Len(filtered) = 2
    /\ filtered[1].date = endDate /\ filtered[2].date = startDate

\* C5: an empty search text passes every transaction; a non-empty one passes
\* exactly the transactions whose note contains it ignoring case, and never a
\* transaction with an empty or missing note.
C5_SearchText ==
    \A i \in Idx :
        /\ OnlyText(transactions[i]) <=>
              (queryText = <<>> \/ ContainsIgnoringCase(noteOf(transactions[i]), queryText))
        /\ (queryText # <<>> /\ noteOf(transactions[i]) = <<>>) => ~OnlyText(transactions[i])

C5_Witness ==
    /\ queryText = QueryAb /\ Len(transactions) = 2
    /\ ~Has(transactions[1], "note") /\ noteOf(transactions[2]) = NoteXaB
    /\ filtered = <<transactions[2]>>

\* C6 (as claimed): the rolling series has exactly 30 entries on consecutive
\* calendar days, oldest first, and ends on a day the clock has shown.
C6_WindowConsecutive ==
    /\ Len(chartDaily) = WindowDays
    /\ \A j \in 1..(WindowDays - 1) :
          ParseISO(chartDaily[j + 1].date) = NextCivil(ParseISO(chartDaily[j].date))
    /\ \E n \in 0..(clock - Today0) : ParseISO(chartDaily[WindowDays].date) = CivilOfDay(Today0 + n)

\* C7: every entry of the series holds the income and the expense of the
\* filtered transactions dated that day and their difference; a day without
\* one holds zeros.
C7_BucketSums ==
    \A j \in 1..Len(chartDaily) :
        LET e == chartDaily[j]
            onDay == {i \in DOMAIN filtered : filtered[i].date = e.date}
        IN  /\ e.income = SumAmounts(filtered, {i \in onDay : EffectiveType(filtered[i]) = "income"})
            /\ e.expense = SumAmounts(filtered, {i \in onDay : EffectiveType(filtered[i]) = "expense"})
            /\ e.net = e.income - e.expense
            /\ onDay = {} => (e.income = 0 /\ e.expense = 0 /\ e.net = 0)

C7_Witness ==
    /\ \E j \in 1..Len(chartDaily) : chartDaily[j].income = 1000 /\ chartDaily[j].expense = 300 /\ chartDaily[j].net = 700
    /\ \E j \in 1..Len(chartDaily) : chartDaily[j].income = 0 /\ chartDaily[j].expense = 0

\* C8: a transaction that the filters reject adds to no bucket: each bucket
\* totals exactly the kept transactions of its day.
C8_ChartFromFiltered ==
    \A j \in 1..Len(chartDaily) :
        chartDaily[j].income + chartDaily[j].expense
            = SumAmounts(transactions, {i \in KeptIdx : transactions[i].date = chartDaily[j].date})

C8_Witness ==
    \E i \in Idx, j \in 1..Len(chartDaily) :
        /\ transactions[i].date = chartDaily[j].date
        /\ ~OnlyDate(transactions[i])
        /\ OnlyType(transactions[i]) /\ OnlyCategory(transactions[i]) /\ OnlyText(transactions[i])
        /\ chartDaily[j].income + chartDaily[j].expense = 0

\* C9: the daily series of the current month has one entry per calendar day,
\* day 1 to the last day in order, with the leap-year-correct length (29 for
\* February 2024); each entry is the sum of the expenses dated that day, 0 for
\* a day without one, so an empty list gives zeros only.
C9_DailySeriesForMonth ==
    LET c == CivilOfDay(legacyNow)
        n == MonthLen(c[1], c[2])
        line == lineData(legacyTx, legacyNow)
        feb == lineData(<<>>, 19763)      \* 2024-02-10, no transactions
    IN  /\ Len(line.labels) = n /\ Len(line.data) = n
        /\ \A i \in 1..n : line.labels[i] = Iso(c[1], c[2], i)
        /\ \A i \in 1..n :
              line.data[i] = SumAmounts(legacyTx,
                                 {k \in DOMAIN legacyTx : /\ EffectiveType(legacyTx[k]) = "expense"
                                                          /\ CivilOfDay(legacyTx[k].date) = <<c[1], c[2], i>>})
        /\ legacyTx = <<>> => \A i \in 1..n : line.data[i] = 0
        /\ Len(feb.labels) = 29 /\ \A i \in 1..29 : feb.data[i] = 0

C9_Witness ==
    LET line == lineData(legacyTx, legacyNow)
    IN  /\ legacyNow = 19782 /\ Len(line.labels) = 29
        /\ line.data[29] = 500 /\ line.data[28] = 0
        /\ \E k \in DOMAIN legacyTx : ~Has(legacyTx[k], "type")

\* C10 (as claimed): when the write of an updateSettings call is rejected and
\* nothing else ran in between, settings and the local-storage copy are back
\* at the values they had before the call, the caller sees the rejection and
\* the modal is not closed.
C10_RollbackRestoresBoth ==
    [][\A m \in Modals :
          (calls[m].pc = "awaiting" /\ ~calls[m].interleaved /\ calls'[m].pc = "idle" /\ lastOutcome' = "rejected")
              => /\ settings' = calls[m].previousSettings
                 /\ localSettings' = calls[m].localBefore
                 /\ modalOpen'[m] = modalOpen[m]]_vars

\* What the settings document reads as: data?.x ?? null for each field.
DocView == [savingAmount |-> settingsDoc.savingAmount, monthlyBudget |-> settingsDoc.monthlyBudget]

\* No write is awaiting its outcome and the listener has nothing to deliver.
Quiescent == (\A m \in Modals : calls[m].pc = "idle") /\ initWrites = 0 /\ ~snapDue

\* C11 (as claimed): once every write has settled and every snapshot has been
\* delivered, the settings state equals the settings document.
C11_QuiescentConsistent == Quiescent => settings = DocView

\* The record is dated, by its date string, in the month of the reference date.
InReferenceMonth(t) ==
    /\ Has(t, "date") /\ IsDateOnlyForm(t.date)
    /\ ParseISO(t.date)[1] = currentMonth.year
    /\ ParseISO(t.date)[2] = currentMonth.month + 1

\* C12: for the transaction list and reference date at hand, the monthly
\* expense total under the filters in force equals the total with every filter
\* neutral; every setting of the five filters is in force in some state with
\* the same list, so the total is the same under all of them.
C12_MonthlyIgnoresFilters ==
    monthlyExpenses =
        monthlyExpensesOf(transactions, applyFilters(transactions, "all", "all", <<>>, <<>>, <<>>), timezone)

\* C12 witness: the filters keep nothing, and the month's expenses are counted.
C12_Witness == transactions # <<>> /\ filtered = <<>> /\ monthlyExpenses > 0

\* C13 (as claimed): the monthly expense total is the sum over exactly the
\* records whose effective type is expense (no type counts as expense) and
\* whose date lies in the year and month of the reference date.
C13_MonthlyExpenseExact ==
    monthlyExpenses =
        SumAmounts(transactions, {i \in Idx : EffectiveType(transactions[i]) = "expense"
                                              /\ InReferenceMonth(transactions[i])})

C15_BudgetPercent ==
    LET mb == settings.monthlyBudget
        me == monthlyExpenses
        r == budgetSpentRatio(mb, me)
        pc == budgetProgressPercent(mb, me)
    IN  /\ r[2] > 0 /\ 0 <= r[1] /\ r[1] <= r[2]
        /\ (mb # NULL /\ mb > 0) => (IF me >= mb THEN r[1] = r[2] ELSE r[1] * mb = me * r[2])
        /\ ~(mb # NULL /\ mb > 0) => r[1] = 0
        /\ pc \in 0..100
        /\ 2 * pc * r[2] <= (200 * r[1]) + r[2]
        /\ (200 * r[1]) + r[2] < 2 * (pc + 1) * r[2]
        /\ (mb = 1000000 /\ me = 1200000) => (r[1] = r[2] /\ pc = 100)

\* C15 witness: the example of the specification.
C15_Witness ==
    /\ settings.monthlyBudget = 1000000 /\ monthlyExpenses = 1200000
    /\ budgetProgressPercent(settings.monthlyBudget, monthlyExpenses) = 100

\* C16: a manual saving amount, 0 included, is the savings value and marks it
\* manual; without one the value is income - expense over the filtered list
\* and is not manual.
C16_Savings ==
    LET sa == settings.savingAmount
        inc == {i \in KeptIdx : EffectiveType(transactions[i]) = "income"}
    IN  /\ sa # NULL => (savings(sa) = sa /\ manualSavings(sa))
        /\ sa = NULL => /\ savings(sa) = SumAmounts(transactions, inc) - SumAmounts(transactions, KeptIdx \ inc)
                        /\ ~manualSavings(sa)

\* C16 witness: a manual amount of 0 next to a balance that is not 0.
C16_Witness == settings.savingAmount = 0 /\ sums.balance # 0 /\ savings(settings.savingAmount) = 0

\* C17 (as claimed): the category map of the filtered list has a key for
\* exactly the categories with at least one expense record (a record without
\* a type is an expense), each mapped to the sum of those records' amounts.
C17_GroupByCategory ==
    LET exp == {i \in KeptIdx : EffectiveType(transactions[i]) = "expense"}
    IN  /\ {pieData[j].name : j \in 1..Len(pieData)} = {transactions[i].category : i \in exp}
        /\ \A j, k \in 1..Len(pieData) : pieData[j].name = pieData[k].name => j = k
        /\ \A j \in 1..Len(pieData) :
              pieData[j].value = SumAmounts(transactions, {i \in exp : transactions[i].category = pieData[j].name})

\* The place in the list at which the filtered records first add to category c.
FirstSeen(c) ==
    LET I == {i \in KeptIdx : Has(transactions[i], "type") /\ transactions[i].type = "expense"
                              /\ transactions[i].category = c}
    IN  CHOOSE i \in I : \A j \in I : i <= j

\* C18 (as claimed): the top-category list has at most 10 entries in descending
\* order of their sums; entries with equal sums stand in the order in which
\* their categories first occur in the input; no omitted category has a
\* larger sum than a listed one.
C18_TopCategories ==
    /\ Len(byCategory) <= TopN
    /\ \A j, k \in 1..Len(byCategory) :
          j < k => /\ byCategory[j].expense >= byCategory[k].expense
                   /\ byCategory[j].expense = byCategory[k].expense
                         => FirstSeen(byCategory[j].category) < FirstSeen(byCategory[k].category)
    /\ \A p \in 1..Len(pieData) :
          (\A j \in 1..Len(byCategory) : byCategory[j].category # pieData[p].name)
              => \A j \in 1..Len(byCategory) : pieData[p].value <= byCategory[j].expense

StatsIdx == 1..Len(statsTx)

\* The records of StatsView that an aggregation by type ty takes in.
StatsOfType(ty) == {i \in StatsIdx : EffectiveType(statsTx[i]) = ty}

\* The wallet a record counts in: cash when it names none.
EffectiveWallet(t) == IF Has(t, "wallet") THEN t.wallet ELSE "cash"

InWallet(w) == {i \in StatsIdx : EffectiveWallet(statsTx[i]) = w}

\* C19: each wallet's balance is its income minus its expense, a record
\* without a wallet counting as cash; every record is in exactly one wallet,
\* so the two balances add up to total income minus total expense.
C19_TotalsByWallet ==
    /\ \A w \in {"cash", "bank"} :
          (IF w = "cash" THEN cashBalance(statsTx) ELSE bankBalance(statsTx))
              = SumAmounts(statsTx, InWallet(w) \cap StatsOfType("income"))
                    - SumAmounts(statsTx, InWallet(w) \cap StatsOfType("expense"))
    /\ InWallet("cash") \cup InWallet("bank") = StatsIdx
    /\ InWallet("cash") \cap InWallet("bank") = {}
    /\ cashBalance(statsTx) + bankBalance(statsTx) = statsTotalIncome(statsTx) - statsTotalExpense(statsTx)

\* C19 witness: a record without a wallet next to a bank record.
C19_Witness ==
    /\ \E i \in StatsIdx : ~Has(statsTx[i], "wallet")
    /\ \E i \in StatsIdx : Has(statsTx[i], "wallet") /\ statsTx[i].wallet = "bank"
    /\ cashBalance(statsTx) # 0 /\ bankBalance(statsTx) # 0

\* "YYYY-MM" of a day number, by the calendar.
YearMonthOf(d) == LET c == CivilOfDay(d) IN SubSeq(Iso(c[1], c[2], 1), 1, 7)

RECURSIVE SumValues(_, _)
SumValues(map, i) == IF i > Len(map) THEN 0 ELSE map[i].value + SumValues(map, i + 1)

\* The month map m is the one of the records at the indices I.
MonthMapOf(m, I) ==
    /\ {m[j].key : j \in 1..Len(m)} = {YearMonthOf(statsTx[i].date) : i \in I}
    /\ \A j, k \in 1..Len(m) : m[j].key = m[k].key => j = k
    /\ \A j \in 1..Len(m) :
          m[j].value = SumAmounts(statsTx, {i \in I : YearMonthOf(statsTx[i].date) = m[j].key})
    /\ SumValues(m, 1) = SumAmounts(statsTx, I)

\* C20: the month maps key each matching record by the YYYY-MM of its date,
\* never of createdAt, and sum the amounts per key; a month is a key iff a
\* matching record is dated in it; the sums add up to the total.
C20_GroupByMonth ==
    /\ MonthMapOf(byMonth(statsTx), StatsOfType("expense"))
    /\ MonthMapOf(byMonthIncome(statsTx), StatsOfType("income"))

\* C20 witness: two expenses of different months, one created in a month
\* other than the one it is dated in.
C20_Witness ==
    /\ Len(byMonth(statsTx)) = 2
    /\ \E i \in StatsOfType("expense") :
          YearMonthOf(statsTx[i].createdAt) # YearMonthOf(statsTx[i].date)

\* The amount a record contributes when a malformed amount counts as 0.
AmountOrZero(t) == IF Has(t, "amount") /\ t.amount # NaN THEN t.amount ELSE 0

RECURSIVE SumOrZero(_, _)
SumOrZero(f, I) ==
    IF I = {} THEN 0
    ELSE LET i == CHOOSE x \in I : TRUE IN AmountOrZero(f[i]) + SumOrZero(f, I \ {i})

\* C21 (as claimed): with a malformed amount counting as 0, the type totals,
\* the buckets of the rolling window, the category sums and the monthly
\* expense total are the sums of the well-formed amounts, all of them numbers.
C21_MalformedAmountIsZero ==
    LET inc == {i \in KeptIdx : Has(transactions[i], "type") /\ transactions[i].type = "income"}
        exp == {i \in KeptIdx : Has(transactions[i], "type") /\ transactions[i].type = "expense"}
    IN  /\ sums.income = SumOrZero(transactions, inc)
        /\ sums.expense = SumOrZero(transactions, KeptIdx \ inc)
        /\ sums.balance = sums.income - sums.expense
        /\ \A j \in 1..Len(chartDaily) :
              /\ chartDaily[j].income = SumOrZero(transactions, {i \in inc : transactions[i].date = chartDaily[j].date})
              /\ chartDaily[j].expense = SumOrZero(transactions, {i \in KeptIdx \ inc : transactions[i].date = chartDaily[j].date})
        /\ \A j \in 1..Len(pieData) :
              pieData[j].value = SumOrZero(transactions, {i \in exp : transactions[i].category = pieData[j].name})
        /\ monthlyExpenses = SumOrZero(transactions, {i \in Idx : /\ Has(transactions[i], "type")
                                                                  /\ transactions[i].type = "expense"
                                                                  /\ InReferenceMonth(transactions[i])})

\* The records of statsTx at the indices I that have a date.
Dated(I) == {i \in I : Has(statsTx[i], "date")}

\* The month map m holds, per month, the sum of the dated records at I.
DatedMonthMap(m, I) ==
    /\ {m[j].key : j \in 1..Len(m)} = {YearMonthOf(statsTx[i].date) : i \in Dated(I)}
    /\ \A j \in 1..Len(m) :
          m[j].value = SumAmounts(statsTx, {i \in Dated(I) : YearMonthOf(statsTx[i].date) = m[j].key})

\* C22 (as claimed): a record without a date is left out of the month buckets
\* and nothing else happens: both month maps are completed, they hold the
\* dated records, and the type totals count every record.
C22_UndatedLeftOutOfBuckets ==
    /\ ~aggregateByMonthThrows(statsExpenseTx(statsTx))
    /\ ~aggregateByMonthThrows(statsIncomeTx(statsTx))
    /\ DatedMonthMap(byMonth(statsTx), StatsOfType("expense"))
    /\ DatedMonthMap(byMonthIncome(statsTx), StatsOfType("income"))
    /\ statsTotalExpense(statsTx) = SumAmounts(statsTx, StatsOfType("expense"))
    /\ statsTotalIncome(statsTx) = SumAmounts(statsTx, StatsOfType("income"))

\* The permutations of 1..n, and a list rearranged by one.
Perms(n) == {p \in [1..n -> 1..n] : \A i, j \in 1..n : p[i] = p[j] => i = j}
Permute(f, p) == [i \in 1..Len(f) |-> f[p[i]]]

\* A bucket map as the set of its (key, sum) pairs.
KeySums(map) == {<<map[j].key, map[j].value>> : j \in 1..Len(map)}
NameSums(pie) == {<<pie[j].name, pie[j].value>> : j \in 1..Len(pie)}

C24_LazyCreation ==
    [][ /\ (snapDue /\ ~snapDue' /\ ~settingsDoc.exists) =>
              (settings' = DEFAULT_SETTINGS /\ initWrites' = initWrites + 1 /\ settingsDoc' = settingsDoc)
        /\ (initWrites' < initWrites /\ settingsDoc' # settingsDoc) => settingsDoc' = DocOf(DEFAULT_SETTINGS)
        /\ settingsDoc.exists => settingsDoc'.exists ]_vars

\* The listener has just reported the document missing: the settings are the
\* defaults, unlike the copy in local storage, and the write is on its way.
C24_Witness ==
    /\ ~settingsDoc.exists /\ initWrites = 1 /\ ~snapDue
    /\ settings = DEFAULT_SETTINGS /\ localSettings # DEFAULT_SETTINGS

\* The pieces of s between the occurrences of sep.
RECURSIVE Split(_, _)
Split(s, sep) ==
    IF \A i \in 1..Len(s) : s[i] # sep THEN <<s>>
    ELSE LET k == CHOOSE i \in 1..Len(s) : s[i] = sep /\ \A j \in 1..(i - 1) : s[j] # sep
         IN  <<SubSeq(s, 1, k - 1)>> \o Split(SubSeq(s, k + 1, Len(s)), sep)

\* The rows a reader of the file finds below the header line (an empty last
\* line is not a row).
CsvRows(text) ==
    LET ls == Tail(Split(text, 10))
    IN  IF Len(ls) > 0 /\ ls[Len(ls)] = <<>> THEN SubSeq(ls, 1, Len(ls) - 1) ELSE ls

\* C25 (as claimed): the exported file has five columns and one row per
\* filtered transaction, in the order of the filtered list, and the cells of
\* row j are the type, amount, category, note (line breaks as spaces) and date
\* of the j-th filtered transaction.
C25_ExportIsFiltered ==
    LET text == exportCSV(filtered)
        rows == CsvRows(text)
    IN  /\ Len(Split(Head(Split(text, 10)), 44)) = 5
        /\ Len(rows) = Len(filtered)
        /\ \A j \in 1..Len(rows) : Split(rows[j], 44) = csvCells(filtered[j])

\* C25, without the cells: one row per filtered transaction, in order, each
\* row being the comma-joined fields of its transaction.
C25_RowPerFiltered ==
    LET rows == CsvRows(exportCSV(filtered))
    IN  /\ Len(rows) = Len(filtered)
        /\ \A j \in 1..Len(rows) : rows[j] = csvRow(filtered[j])

\* The transaction store: the collection, or without a db the list itself.
StoreOf(src, txs, docs) == IF src = "local" THEN {txs[i] : i \in 1..Len(txs)} ELSE docs

\* e is d with the fields of patch set and nothing else changed.
Patched(d, e, patch) ==
    /\ DOMAIN e = DOMAIN d \cup DOMAIN patch
    /\ \A f \in DOMAIN patch : e[f] = patch[f]
    /\ \A f \in DOMAIN d \ DOMAIN patch : e[f] = d[f]

\* C26: update(id, patch) sets the fields of patch on the transaction with
\* that id and changes nothing else in the store, remove(id) takes out exactly
\* the transaction with that id, add puts in one transaction under a new id,
\* and no other step changes the store, so what was added stays until removed.
C26_StoreFrame ==
    [][ LET S == StoreOf(source, transactions, txDocs)
            T == StoreOf(source', transactions', txDocs')
        IN  /\ lastOp'.op = "update" =>
                  /\ \A d \in S : IF d.id = lastOp'.id
                                  THEN \E e \in T : e.id = d.id /\ Patched(d, e, lastOp'.patch)
                                  ELSE d \in T
                  /\ {e.id : e \in T} = {d.id : d \in S} /\ Cardinality(T) = Cardinality(S)
            /\ lastOp'.op = "remove" => T = {d \in S : d.id # lastOp'.id}
            /\ lastOp'.op = "add" =>
                  /\ S \subseteq T /\ Cardinality(T) = Cardinality(S) + 1
                  /\ \A d \in S : d.id # lastOp'.id
            /\ lastOp'.op \in {"none", "snapshot"} => T = S ]_vars

\* An update has just been applied to the seeded document, next to another one:
\* it has the submitted amount and still its wallet.
C26_Witness ==
    /\ lastOp.op = "update" /\ lastOp.id = 1
    /\ Cardinality(txDocs) >= 2
    /\ \E d \in txDocs : d.id = 1 /\ d.amount = 3 /\ Has(d, "wallet") /\ d.wallet = "bank"

\* C27 (as claimed): a call n that started while the call m of the other modal
\* was awaiting, with nothing having happened since, keeps its patch in the
\* settings when m is rejected; n's confirmation, which leaves the settings as
\* they are, then finds them holding n's patch.
C27_SecondPatchSurvives ==
    [][ \A m, n \in Modals :
            ( /\ m # n
              /\ calls[m].pc = "awaiting" /\ calls[n].pc = "awaiting" /\ ~calls[n].interleaved
              /\ calls'[m].pc = "idle" /\ lastOutcome' = "rejected" /\ calls'[n].pc = "awaiting" )
            => settings'[FieldOf(n)] = calls[n].value ]_vars

\* C28 (as claimed): the initialisation write, when it is applied, leaves every
\* non-null savingAmount and monthlyBudget of the document as it is.
C28_LazyCreationKeepsValues ==
    [][ (initWrites' < initWrites /\ settingsDoc' # settingsDoc) =>
            \A f \in {"savingAmount", "monthlyBudget"} :
                settingsDoc[f] # NULL => settingsDoc'[f] = settingsDoc[f] ]_vars

\* C29 (as claimed): the text of an edit is written to the item the edit was
\* started on, and a check or a removal goes to the item that was clicked.
C29_WritesToTheItemClicked ==
    /\ lastWish.op = "text" => lastWish.id = lastWish.started
    /\ lastWish.op \in {"check", "remove"} => lastWish.id = lastWish.clicked

\* C29, check and remove only: each goes to the item of the row clicked.
C29_CheckAndRemove == lastWish.op \in {"check", "remove"} => lastWish.id = lastWish.clicked

\* C30 (as claimed): the expense total of the summary equals the sum of the
\* values of the pie slices computed from the same filtered list.
C30_ExpenseEqualsPieTotal == sums.expense = SumValues(pieData, 1)

====
